---- MODULE Spec2Model ----
(***************************************************************************)
(* Model of lpt (Linux boot profiling tool): cloud-init frame              *)
(* reconstruction, boot segmentation, monotonic estimation, the systemd    *)
(* unit dependency walk and the merge of the event sources.                *)
(*                                                                         *)
(* Time is counted in integer ticks (one tick = one microsecond); a        *)
(* monotonic timestamp is a number of ticks, 0 being Python's 0.0.         *)
(* Python's None is the string "None".                                     *)
(***************************************************************************)
EXTENDS Integers, Sequences, FiniteSets, TLC

None == "None"

(***************************************************************************)
(* Bounds of the model.                                                    *)
(***************************************************************************)
MaxEntries == 3
MaxMono == 2
MaxAfter == 2
MaxDepth == 4
MaxRecords == 4
MaxLines == 3
MaxTick == 2
MaxBody == 3
MaxAttempts == 2
MaxCode == 2

VARIABLES
    \* CloudInit.get_frames()
    gf_entries,     \* self.entries of the boot
    gf_i,           \* number of entries the for loop has consumed
    frames,         \* frames: List[CloudInitFrame], a frame is named by its index
    stack,          \* stack: deque[CloudInitFrame], indices into frames
    gf_status,      \* "running", "returned" or the exception that left the method
    \* analyze_units(): _walk_unit_dependencies()
    su_units,       \* systemd.units: Dict[str, SystemdUnit]
    wk_cfg,         \* the keyword arguments of analyze_units
    seen,           \* seen = set()
    wk_stack,       \* the activations of _walk_dependencies, innermost last
    units,          \* units: Dict[str, Unit]
    expanded,       \* how many times each name went past the `seen` test
    wk_status,      \* "init", "running", "returned" or the exception raised
    \* Journal.parse_json() and Journal.get_events_of_interest()
    j_logs,         \* logs.splitlines(), one raw record per line
    j_entries,      \* entries = [JournalEntry.parse(...) ...]
    j_i,            \* number of entries the segmentation loop has consumed
    j_boot_entries, \* boot_entries
    journals,       \* journals, each boot being the list of its entries
    j_events,       \* get_events_of_interest() of the boots classified so far
    j_status,       \* "init", "segmenting", "returned" or the exception raised
    \* CloudInit.load()
    ci_lines,       \* logs.splitlines()
    ci_i,           \* number of lines the loop has consumed
    ci_entries,     \* the CloudInitEntry objects created so far, by line number
    boot_entries,   \* boot_entries, a list of references (line numbers)
    boot_logs,      \* boot_logs, the line numbers of the raw lines
    cloudinits,     \* cloudinits, each boot with its entries (references)
    reference_monotonic,
    last_timestamp,
    last_stage,
    ci_status,      \* "running" or "returned"
    \* analyze_events(journals, cloudinits, systemd, boot, event_types)
    an_journals,    \* journals: each Journal is the list of its entries
    an_cloudinits,  \* cloudinits: each CloudInit is the list of its entries
    an_systemd,     \* systemd, or None; its units are su_units
    an_boot,        \* boot
    an_event_types, \* event_types as a set; None and [] are the empty set
    an_events,      \* events
    an_result,      \* the EventData returned, None before the return
    an_status,      \* the position in analyze_events, or the exception that left it
    \* Systemd.get_events_of_interest
    sd_system,      \* self
    sd_units,       \* self.units
    sd_i,           \* how many units the comprehension has visited
    sd_events,      \* events
    sd_status,      \* "running" or "returned"
    \* CloudInitEntry.parse(log_line, reference_monotonic)
    pe_log_line,    \* log_line, as the sequence of its pieces of text
    pe_reference,   \* reference_monotonic
    pe_match,       \* line_match.groups(), None before the match
    pe_body,        \* event_type, module, result, stage and message, None before
    pe_entry,       \* the CloudInitEntry returned, None before the return
    pe_status,      \* the position in parse, or the exception that left it
    \* SSH: connect_with_retries(), close(), fetch(); CloudInit.load_remote()
    proxy_host,     \* self.proxy_host
    client,         \* self.client
    proxy_client,   \* self.proxy_client
    transport,      \* self.transport
    proxy_sock,     \* self.proxy_sock
    attempts,       \* attempts, the local of connect_with_retries
    ssh_trace,      \* the connect() and close() calls made so far, with outcomes
    ssh_status,     \* the position in connect_with_retries, or the exception
    remote,         \* the remote file: who can read it, and its bytes
    ft_runs,        \* the self.run() calls of fetch, with their return codes
    ft_proc,        \* proc, None before the first run
    ft_local,       \* the bytes of local_path, None while it does not exist
    ft_status,      \* the position in fetch, or the exception that left it
    lr_result       \* what load_remote returned, None before it returns

gfVars == <<gf_entries, gf_i, frames, stack, gf_status>>
walkVars == <<su_units, wk_cfg, seen, wk_stack, units, expanded, wk_status>>
journalVars == <<j_logs, j_entries, j_i, j_boot_entries, journals, j_events, j_status>>
loadVars == <<ci_lines, ci_i, ci_entries, boot_entries, boot_logs, cloudinits,
              reference_monotonic, last_timestamp, last_stage, ci_status>>

analyzeVars == <<an_journals, an_cloudinits, an_systemd, an_boot, an_event_types,
                 an_events, an_result, an_status>>

systemdVars == <<sd_system, sd_units, sd_i, sd_events, sd_status>>
parseVars == <<pe_log_line, pe_reference, pe_match, pe_body, pe_entry, pe_status>>

sshVars == <<proxy_host, client, proxy_client, transport, proxy_sock, attempts,
             ssh_trace, ssh_status, remote, ft_runs, ft_proc, ft_local, ft_status,
             lr_result>>

vars == <<gfVars, walkVars, journalVars, loadVars, analyzeVars, systemdVars, parseVars,
          sshVars>>

otherThanFrames == <<walkVars, journalVars, loadVars, analyzeVars, systemdVars,
    parseVars, sshVars>>
otherThanWalk == <<gfVars, journalVars, loadVars, analyzeVars, systemdVars,
    parseVars, sshVars>>
otherThanJournal == <<gfVars, walkVars, loadVars, analyzeVars, systemdVars,
    parseVars, sshVars>>
otherThanLoad == <<gfVars, walkVars, journalVars, analyzeVars, systemdVars,
    parseVars, sshVars>>
otherThanAnalyze == <<gfVars, journalVars, loadVars, systemdVars, parseVars, sshVars>>
otherThanSystemd == <<gfVars, walkVars, journalVars, loadVars, analyzeVars, parseVars,
    sshVars>>
otherThanParse == <<gfVars, walkVars, journalVars, loadVars, analyzeVars, systemdVars,
    sshVars>>
otherThanSsh == <<gfVars, walkVars, journalVars, loadVars, analyzeVars, systemdVars,
    parseVars>>

\* Optional[datetime.datetime]
NoTime == [some |-> FALSE, at |-> 0]
Time(t) == [some |-> TRUE, at |-> t]

(***************************************************************************)
(* event.py: the dataclass Event declares five fields, none of which has   *)
(* a default; a constructor call that leaves one out raises TypeError.     *)
(***************************************************************************)
EventFields == {"label", "timestamp_realtime", "timestamp_monotonic", "source", "severity"}

CloudInitFrameFields ==
    EventFields \cup {"stage", "module", "timestamp_realtime_finish",
                      "timestamp_realtime_start", "timestamp_monotonic_finish",
                      "timestamp_monotonic_start", "duration", "result",
                      "parent", "children"}

\* The generated __init__ of a dataclass: every field without a default is required.
DataclassInit(fields, kwargs) ==
    IF fields \subseteq DOMAIN kwargs THEN "ok" ELSE "TypeError"

(***************************************************************************)
(* CloudInit.get_frames(): one iteration of the loop over self.entries.    *)
(* st is [frames, stack, status].                                          *)
(***************************************************************************)
Stages == {"init-local"}
Modules == {"m1", "m2"}
Results == {"SUCCESS", "FAIL"}

StackTop(stk) == IF stk = <<>> THEN 0 ELSE stk[Len(stk)]

\* if entry.event_type == "start": ... (the keyword arguments of the constructor call)
FrameKwargs(entry, parent) ==
    [source |-> "cloudinit",
     label |-> "CLOUDINIT_FRAME",
     timestamp_realtime |-> entry.timestamp_realtime,
     timestamp_monotonic |-> entry.timestamp_monotonic,
     duration |-> 0,
     stage |-> entry.stage,
     module |-> entry.module,
     timestamp_realtime_finish |-> entry.timestamp_realtime,
     timestamp_monotonic_finish |-> 0,
     timestamp_realtime_start |-> entry.timestamp_realtime,
     timestamp_monotonic_start |-> entry.timestamp_monotonic,
     children |-> {},
     parent |-> parent,
     result |-> "INCOMPLETE"]

GetFramesStart(st, entry) ==
    LET parent == StackTop(st.stack)
        kwargs == FrameKwargs(entry, parent)
        id     == Len(st.frames) + 1
    IN  IF entry.module \in {None, ""} \/ entry.stage \in {None, ""}
        THEN [st EXCEPT !.status = "AssertionError"]
        ELSE IF DataclassInit(CloudInitFrameFields, kwargs) # "ok"
        THEN [st EXCEPT !.status = DataclassInit(CloudInitFrameFields, kwargs)]
        ELSE [frames |-> [k \in 1..id |->
                            IF k = id THEN kwargs
                            ELSE IF k = parent
                                 THEN [st.frames[k] EXCEPT !.children = @ \cup {id}]
                                 ELSE st.frames[k]],
              stack  |-> Append(st.stack, id),
              status |-> st.status]

\* a finish entry with nothing open leaves the method with the IndexError of pop()
GetFramesFinish_Unguarded(st, entry) ==
    IF st.stack = <<>>
    THEN [st EXCEPT !.status = "IndexError"]
    ELSE st

\* if entry.event_type == "finish": ...
GetFramesFinish(st, entry) ==
    IF st.stack = <<>>
    THEN st     \* IndexError: "Ignoring finish event without start", continue
    ELSE LET id    == st.stack[Len(st.stack)]
             frame == st.frames[id]
             popped == [st EXCEPT !.stack = SubSeq(st.stack, 1, Len(st.stack) - 1)]
         IN  IF \/ entry.module \in {None, ""}
                \/ entry.result \in {None, ""}
                \/ entry.stage \in {None, ""}
                \/ frame.stage # entry.stage
                \/ frame.module # entry.module
             THEN [popped EXCEPT !.status = "AssertionError"]
             ELSE [popped EXCEPT !.frames[id] =
                      [frame EXCEPT
                          !.timestamp_realtime_finish = entry.timestamp_realtime,
                          !.timestamp_monotonic_finish = entry.timestamp_monotonic,
                          !.duration = entry.timestamp_monotonic
                                          - frame.timestamp_monotonic_start,
                          !.result = entry.result]]

GetFramesStep(st, entry) ==
    CASE entry.event_type = "start"  -> GetFramesStart(st, entry)
      [] entry.event_type = "finish" -> GetFramesFinish(st, entry)
      [] OTHER                       -> st

\* get_frames() as a function of the entries: the frames it returns, or the
\* exception that leaves it.
RECURSIVE GetFramesFold(_, _, _)
GetFramesFold(st, entries, k) ==
    IF st.status # "running" THEN st
    ELSE IF k > Len(entries) THEN [st EXCEPT !.status = "returned"]
    ELSE GetFramesFold(GetFramesStep(st, entries[k]), entries, k + 1)

get_frames(entries) ==
    GetFramesFold([frames |-> <<>>, stack |-> <<>>, status |-> "running"], entries, 1)

(***************************************************************************)
(* The entries of one boot as CloudInit.load() leaves them: every entry    *)
(* has a stage, start and finish entries have a module, finish entries a   *)
(* result.  The realtime timestamps are increasing in log order; here the  *)
(* k-th entry is at tick k.                                                *)
(***************************************************************************)
FrameEntryShapes ==
    [event_type : {"start"}, stage : Stages, module : Modules, result : {None},
     timestamp_monotonic : 0..MaxMono]
    \cup
    [event_type : {"finish"}, stage : Stages, module : Modules, result : Results,
     timestamp_monotonic : 0..MaxMono]
    \cup
    [event_type : {"log"}, stage : Stages, module : {None}, result : {None},
     timestamp_monotonic : {0}]

WithRealtime(shape, k) ==
    [event_type |-> shape.event_type, stage |-> shape.stage, module |-> shape.module,
     result |-> shape.result, timestamp_monotonic |-> shape.timestamp_monotonic,
     timestamp_realtime |-> k]

\* the boots of at most MaxEntries entries
IsBootEntries(entries) ==
    \E n \in 0..MaxEntries : \E s \in [1..n -> FrameEntryShapes] :
        entries = [k \in 1..n |-> WithRealtime(s[k], k)]

IdleFrames ==
    /\ gf_entries = <<>>
    /\ gf_i = 0
    /\ frames = <<>>
    /\ stack = <<>>
    /\ gf_status = "idle"

IdleWalk ==
    /\ su_units = <<>>
    /\ wk_cfg = None
    /\ seen = {}
    /\ wk_stack = <<>>
    /\ units = <<>>
    /\ expanded = <<>>
    /\ wk_status = "idle"

IdleJournal ==
    /\ j_logs = <<>>
    /\ j_entries = <<>>
    /\ j_i = 0
    /\ j_boot_entries = <<>>
    /\ journals = <<>>
    /\ j_events = <<>>
    /\ j_status = "idle"

IdleLoad ==
    /\ ci_lines = <<>>
    /\ ci_i = 0
    /\ ci_entries = <<>>
    /\ boot_entries = <<>>
    /\ boot_logs = <<>>
    /\ cloudinits = <<>>
    /\ reference_monotonic = NoTime
    /\ last_timestamp = NoTime
    /\ last_stage = "init-local"
    /\ ci_status = "idle"

IdleAnalyze ==
    /\ an_journals = <<>>
    /\ an_cloudinits = <<>>
    /\ an_systemd = None
    /\ an_boot = TRUE
    /\ an_event_types = {}
    /\ an_events = <<>>
    /\ an_result = None
    /\ an_status = "idle"

IdleSystemd ==
    /\ sd_system = None
    /\ sd_units = <<>>
    /\ sd_i = 0
    /\ sd_events = <<>>
    /\ sd_status = "idle"

IdleParse ==
    /\ pe_log_line = <<>>
    /\ pe_reference = NoTime
    /\ pe_match = None
    /\ pe_body = None
    /\ pe_entry = None
    /\ pe_status = "idle"

IdleSsh ==
    /\ proxy_host = None
    /\ client = None
    /\ proxy_client = None
    /\ transport = None
    /\ proxy_sock = None
    /\ attempts = 0
    /\ ssh_trace = <<>>
    /\ ssh_status = "idle"
    /\ remote = None
    /\ ft_runs = <<>>
    /\ ft_proc = None
    /\ ft_local = None
    /\ ft_status = "idle"
    /\ lr_result = None

GfState == [frames |-> frames, stack |-> stack, status |-> gf_status]

InitFrames ==
    /\ IsBootEntries(gf_entries)
    /\ gf_i = 0
    /\ frames = <<>>
    /\ stack = <<>>
    /\ gf_status = "running"
    /\ IdleWalk
    /\ IdleJournal
    /\ IdleLoad
    /\ IdleAnalyze
    /\ IdleSystemd
    /\ IdleParse
    /\ IdleSsh

GfApply(st) ==
    /\ frames' = st.frames
    /\ stack' = st.stack
    /\ gf_status' = st.status
    /\ gf_i' = gf_i + 1
    /\ UNCHANGED <<gf_entries, otherThanFrames>>

GetFramesOnStart ==
    /\ gf_status = "running"
    /\ gf_i < Len(gf_entries)
    /\ gf_entries[gf_i + 1].event_type = "start"
    /\ GfApply(GetFramesStart(GfState, gf_entries[gf_i + 1]))

GetFramesOnFinish ==
    /\ gf_status = "running"
    /\ gf_i < Len(gf_entries)
    /\ gf_entries[gf_i + 1].event_type = "finish"
    /\ GfApply(GetFramesFinish(GfState, gf_entries[gf_i + 1]))

GetFramesOnLog ==
    /\ gf_status = "running"
    /\ gf_i < Len(gf_entries)
    /\ gf_entries[gf_i + 1].event_type = "log"
    /\ GfApply(GfState)

GetFramesReturn ==
    /\ gf_status = "running"
    /\ gf_i = Len(gf_entries)
    /\ gf_status' = "returned"
    /\ UNCHANGED <<gf_entries, gf_i, frames, stack, otherThanFrames>>

NextFrames ==
    \/ GetFramesOnStart
    \/ GetFramesOnFinish
    \/ GetFramesOnLog
    \/ GetFramesReturn

SpecFrames == InitFrames /\ [][NextFrames]_vars

(***************************************************************************)
(* systemd.py: the units of a snapshot.  A timestamp that is unset (None   *)
(* or 0.0, both false in Python) is 0.                                     *)
(***************************************************************************)
Names == {"A", "B", "C"}
NameRank == [n \in Names |-> CASE n = "A" -> 1 [] n = "B" -> 2 [] n = "C" -> 3]

\* SystemdUnitList.is_active
is_active(u) == u.active # "inactive"

\* SystemdUnitList.is_failed
is_failed(u) == u.active = "failed"

\* A float result, or the ValueError raised in its place.
Value(v) == [raises |-> FALSE, value |-> v]
ValueError == [raises |-> TRUE, value |-> 0]

\* the chain with the ExecMain pair tried before the ActiveEnter pair
get_time_to_activate_ExecFirst(u) ==
    IF u.exec_main_exit_timestamp_monotonic # 0 /\ u.exec_main_start_timestamp_monotonic # 0
    THEN Value(u.exec_main_exit_timestamp_monotonic - u.exec_main_start_timestamp_monotonic)
    ELSE IF u.active_enter_timestamp_monotonic # 0 /\ u.inactive_exit_timestamp_monotonic # 0
    THEN Value(u.active_enter_timestamp_monotonic - u.inactive_exit_timestamp_monotonic)
    ELSE IF u.inactive_exit_timestamp_monotonic # 0 /\ u.inactive_enter_timestamp_monotonic # 0
    THEN Value(u.inactive_exit_timestamp_monotonic - u.inactive_enter_timestamp_monotonic)
    ELSE ValueError


\* SystemdUnitShow.get_time_to_activate
get_time_to_activate(u) ==
    IF u.active_enter_timestamp_monotonic # 0 /\ u.inactive_exit_timestamp_monotonic # 0
    THEN Value(u.active_enter_timestamp_monotonic - u.inactive_exit_timestamp_monotonic)
    ELSE IF u.exec_main_exit_timestamp_monotonic # 0 /\ u.exec_main_start_timestamp_monotonic # 0
    THEN Value(u.exec_main_exit_timestamp_monotonic - u.exec_main_start_timestamp_monotonic)
    ELSE IF u.inactive_exit_timestamp_monotonic # 0 /\ u.inactive_enter_timestamp_monotonic # 0
    THEN Value(u.inactive_exit_timestamp_monotonic - u.inactive_enter_timestamp_monotonic)
    ELSE ValueError

\* SystemdUnitShow.get_time_of_activation
get_time_of_activation(u) ==
    IF u.active_enter_timestamp_monotonic # 0
    THEN Value(u.active_enter_timestamp_monotonic)
    ELSE IF u.exec_main_exit_timestamp_monotonic # 0
    THEN Value(u.exec_main_exit_timestamp_monotonic)
    ELSE IF u.inactive_exit_timestamp_monotonic # 0
    THEN Value(u.inactive_exit_timestamp_monotonic)
    ELSE ValueError

\* Unit.from_systemd_unit raises the ValueError of the unit's getters
from_systemd_unit_raises(u) ==
    get_time_to_activate(u).raises \/ get_time_of_activation(u).raises

\* Unit.from_systemd_unit
from_systemd_unit(name, u) ==
    [name |-> name,
     duration |-> get_time_to_activate(u).value,
     finished |-> get_time_of_activation(u).value,
     dependencies |-> <<>>,
     failed |-> is_failed(u)]

\* sorted(s) for a set of unit names
RECURSIVE sorted(_)
sorted(S) ==
    IF S = {} THEN <<>>
    ELSE LET m == CHOOSE x \in S : \A y \in S : NameRank[x] <= NameRank[y]
         IN  <<m>> \o sorted(S \ {m})

(***************************************************************************)
(* The snapshots of the model: each of the three names is absent or is a   *)
(* unit of one of four kinds, with at most MaxAfter names in its After.    *)
(***************************************************************************)
UnitKinds == {"ok", "inactive", "never", "cond_no"}

UnitOfKind(kind, after) ==
    [after |-> after,
     active |-> CASE kind = "inactive" -> "inactive"
                  [] kind = "never" -> "activating"
                  [] OTHER -> "active",
     condition_result |-> (kind # "cond_no"),
     active_enter_timestamp_monotonic |-> IF kind = "never" THEN 0 ELSE 2,
     inactive_exit_timestamp_monotonic |-> 1,
     inactive_enter_timestamp_monotonic |-> IF kind = "inactive" THEN 3 ELSE 0,
     exec_main_start_timestamp_monotonic |-> 0,
     exec_main_exit_timestamp_monotonic |-> 0,
     active_enter_timestamp |-> IF kind = "never" THEN 0 ELSE 2,
     inactive_exit_timestamp |-> 1,
     exec_main_exit_timestamp |-> 0]

AfterSets == {S \in SUBSET Names : Cardinality(S) <= MaxAfter}

WalkConfigs ==
    {[filter_conditional_result_no |-> FALSE, filter_inactive |-> TRUE,
      filter_services |-> {}, service_name |-> "A"],
     [filter_conditional_result_no |-> FALSE, filter_inactive |-> FALSE,
      filter_services |-> {}, service_name |-> "A"],
     [filter_conditional_result_no |-> TRUE, filter_inactive |-> TRUE,
      filter_services |-> {}, service_name |-> "A"],
     [filter_conditional_result_no |-> FALSE, filter_inactive |-> TRUE,
      filter_services |-> {"B"}, service_name |-> "A"]}

\* the snapshots: every unit but the root is listed by some other unit, and
\* the third unit is active, inactive or absent
InitWalk ==
    /\ \E kind \in [Names -> UnitKinds \cup {"absent"}] :
       \E aft \in [Names -> AfterSets] :
          /\ \A n \in Names : kind[n] = "absent" => aft[n] = {}
          /\ kind["C"] \in {"ok", "inactive", "absent"}
          /\ \A n \in Names \ {"A"} :
                kind[n] # "absent" => \E m \in Names \ {n} : n \in aft[m]
          /\ su_units = [n \in {m \in Names : kind[m] # "absent"}
                            |-> UnitOfKind(kind[n], aft[n])]
    /\ wk_cfg \in WalkConfigs
    /\ seen = {}
    /\ wk_stack = <<>>
    /\ units = <<>>
    /\ expanded = [n \in Names |-> 0]
    /\ wk_status = "init"
    /\ IdleFrames
    /\ IdleJournal
    /\ IdleLoad
    /\ IdleAnalyze
    /\ IdleSystemd
    /\ IdleParse
    /\ IdleSsh

(***************************************************************************)
(* analyze_units._walk_unit_dependencies._walk_dependencies                *)
(***************************************************************************)
\* _walk_dependencies without the test of `seen`
WalkCall_NoSeenTest(w, name) ==
    LET w1 == [w EXCEPT !.seen = @ \cup {name},
                        !.expanded[name] = @ + 1]
    IN  IF name \notin DOMAIN su_units
        THEN w1
        ELSE [w1 EXCEPT !.stack = Append(@, [name |-> name,
                                             todo |-> su_units[name].after,
                                             unit_deps |-> {}])]

\* The call _walk_dependencies(name): what it does before its loop.
\* w is [seen, stack, expanded].
WalkCall(w, name) ==
    IF name \in w.seen
    THEN w
    ELSE LET w1 == [w EXCEPT !.seen = @ \cup {name},
                             !.expanded[name] = @ + 1]
         IN  IF name \notin DOMAIN su_units
             THEN w1        \* service is None: return
             ELSE [w1 EXCEPT !.stack = Append(@, [name |-> name,
                                                  todo |-> su_units[name].after,
                                                  unit_deps |-> {}])]

\* the loop body without the test of dependency.is_active()
WalkRejects_ThreeFilters(name) ==
    \/ name \notin DOMAIN su_units
    \/ /\ name \in DOMAIN su_units
       /\ \/ name \in wk_cfg.filter_services
          \/ wk_cfg.filter_conditional_result_no /\ ~ su_units[name].condition_result
          \/ wk_cfg.filter_inactive
                /\ su_units[name].active_enter_timestamp_monotonic = 0


\* The tests of the loop body that `continue` past a name of service.after.
WalkRejects(name) ==
    \/ name \notin DOMAIN su_units
    \/ /\ name \in DOMAIN su_units
       /\ \/ ~ is_active(su_units[name])
          \/ name \in wk_cfg.filter_services
          \/ wk_cfg.filter_conditional_result_no /\ ~ su_units[name].condition_result
          \/ wk_cfg.filter_inactive
                /\ su_units[name].active_enter_timestamp_monotonic = 0

WalkState == [seen |-> seen, stack |-> wk_stack, expanded |-> expanded]

WalkApply(w) ==
    /\ seen' = w.seen
    /\ wk_stack' = w.stack
    /\ expanded' = w.expanded

\* _walk_dependencies(service_name), the call that starts the walk
WalkStart ==
    /\ wk_status = "init"
    /\ WalkApply(WalkCall(WalkState, wk_cfg.service_name))
    /\ wk_status' = "running"
    /\ UNCHANGED <<su_units, wk_cfg, units, otherThanWalk>>

\* one iteration of `for name in service.after` that ends in `continue`
WalkSkip ==
    /\ wk_status = "running"
    /\ wk_stack # <<>>
    /\ \E name \in wk_stack[Len(wk_stack)].todo :
          /\ WalkRejects(name)
          /\ wk_stack' = [wk_stack EXCEPT ![Len(wk_stack)].todo = @ \ {name}]
    /\ UNCHANGED <<su_units, wk_cfg, seen, units, expanded, wk_status, otherThanWalk>>

\* one iteration that reaches unit_deps.add(name); _walk_dependencies(name)
WalkDescend ==
    /\ wk_status = "running"
    /\ wk_stack # <<>>
    /\ Len(wk_stack) < MaxDepth
    /\ \E name \in wk_stack[Len(wk_stack)].todo :
          /\ ~ WalkRejects(name)
          /\ WalkApply(WalkCall(
                [WalkState EXCEPT !.stack[Len(wk_stack)].todo = @ \ {name},
                                  !.stack[Len(wk_stack)].unit_deps = @ \cup {name}],
                name))
    /\ UNCHANGED <<su_units, wk_cfg, units, wk_status, otherThanWalk>>

\* the loop is exhausted: Unit.from_systemd_unit, units[service_name] = unit, return
WalkFinishUnit ==
    /\ wk_status = "running"
    /\ wk_stack # <<>>
    /\ wk_stack[Len(wk_stack)].todo = {}
    /\ LET top  == wk_stack[Len(wk_stack)]
           unit == from_systemd_unit(top.name, su_units[top.name])
       IN  IF from_systemd_unit_raises(su_units[top.name])
           THEN /\ wk_status' = "ValueError"
                /\ UNCHANGED <<wk_stack, units>>
           ELSE /\ units' = [n \in DOMAIN units \cup {top.name} |->
                               IF n = top.name
                               THEN [unit EXCEPT !.dependencies = sorted(top.unit_deps)]
                               ELSE units[n]]
                /\ wk_stack' = SubSeq(wk_stack, 1, Len(wk_stack) - 1)
                /\ UNCHANGED wk_status
    /\ UNCHANGED <<su_units, wk_cfg, seen, expanded, otherThanWalk>>

\* the outermost call has returned
WalkReturn ==
    /\ wk_status = "running"
    /\ wk_stack = <<>>
    /\ wk_status' = "returned"
    /\ UNCHANGED <<su_units, wk_cfg, seen, wk_stack, units, expanded, otherThanWalk>>

NextWalk ==
    \/ WalkStart
    \/ WalkSkip
    \/ WalkDescend
    \/ WalkFinishUnit
    \/ WalkReturn

SpecWalk == InitWalk /\ [][NextWalk]_vars

\* the walk is a sequential computation: it keeps running until it returns or raises
SpecWalkFair == SpecWalk /\ WF_vars(NextWalk)


(***************************************************************************)
(* Log messages.  A message is one of a fixed set of representative texts; *)
(* re.search and str.startswith are tabulated on them.                     *)
(***************************************************************************)
MsgKernel    == "Linux version 5.4.0-1 (buildd@lcy01)"
MsgBooting   == "Booting Linux version 5.4.0-1"
MsgAccepted  == "Accepted publickey for azureuser from 10.0.0.1 port 22 ssh2"
MsgStarted   == "Started OpenBSD Secure Shell server."
MsgStarting  == "Starting Initial cloud-init job (pre-networking)..."
MsgReached   == "Reached target Multi-User System."
MsgListening == "Server listening on 0.0.0.0 port 22."
MsgLink      == "eth0: link becomes ready"
MsgDhcp      == "DHCPDISCOVER on eth0 to 255.255.255.255 port 67"
MsgSystemd   == "systemd 245 running in system mode."
MsgStartup   == "Startup finished in 1.2s (firmware) + 3s (kernel)."
MsgInitLocal == "Cloud-init v. 22.2 running 'init-local' at Mon, 03 Oct 2022. Up 1 seconds."
MsgInit      == "Cloud-init v. 22.2 running 'init' at Mon, 03 Oct 2022. Up 2 seconds."
MsgFinished  == "Cloud-init v. 22.2 finished at Mon, 03 Oct 2022. Up 3 seconds"
MsgClockWrong == "System clock wrong by 1.5 seconds"
MsgClockStep == "System clock was stepped by 1.5 seconds"
MsgSegfault  == "sshd[1]: segfault at 0 ip 0 sp 0 error 4"
MsgNewUser   == "new user: name=azureuser"
MsgNewGroup  == "new group: name=azureuser"
MsgHostKeys  == "Your identification has been saved in /etc/ssh/ssh_host_ecdsa_key"
MsgOther     == "Command line: BOOT_IMAGE=/boot/vmlinuz"

\* the patterns of Journal.get_events_of_interest that re.search finds in a message
JournalMatches(message) ==
    CASE message = MsgKernel     -> {"Linux version"}
      [] message = MsgBooting    -> {"Linux version"}
      [] message = MsgAccepted   -> {"Accepted publickey"}
      [] message = MsgStarted    -> {"^Started"}
      [] message = MsgStarting   -> {"^Starting"}
      [] message = MsgReached    -> {"^Reached target"}
      [] message = MsgListening  -> {"Server listening on 0.0.0.0 port 22"}
      [] message = MsgLink       -> {".*link becomes ready"}
      [] message = MsgDhcp       -> {"DHCPDISCOVER"}
      [] message = MsgSystemd    -> {"systemd .* running in system mode.*"}
      [] message = MsgStartup    -> {"Startup finished in.*(firmware).*"}
      [] message = MsgInitLocal  -> {"running 'init-local'"}
      [] message = MsgInit       -> {"running 'init'"}
      [] message = MsgFinished   -> {"finished at"}
      [] message = MsgClockWrong -> {"System clock wrong"}
      [] message = MsgClockStep  -> {"System clock was stepped"}
      [] message = MsgSegfault   -> {"segfault"}
      [] message = MsgNewUser    -> {"^new user:"}
      [] message = MsgNewGroup   -> {"^new group:"}
      [] message = MsgHostKeys   ->
            {"Your identification has been saved in /etc/ssh/ssh_host_ecdsa_key"}
      [] OTHER                   -> {}

\* entry.message.startswith("Linux version")
StartsWithLinuxVersion(message) == message = MsgKernel

(***************************************************************************)
(* journal.py                                                              *)
(***************************************************************************)
JournalEventFields == EventFields \cup {"message"}

\* JournalEntry.as_event
JournalAsEvent(entry, label, severity) ==
    [message |-> entry.message,
     timestamp_realtime |-> entry.timestamp_realtime,
     timestamp_monotonic |-> entry.timestamp_monotonic,
     label |-> label,
     severity |-> severity,
     source |-> "journal"]

\* Journal.find_entries
JournalFindEntries(entries, pattern) ==
    SelectSeq(entries, LAMBDA e : pattern \in JournalMatches(e.message))

\* The loops of Journal.get_events_of_interest, in the order of the source;
\* first_only marks the loops that `break` after their first entry.
Rule(pattern, label, severity, first_only) ==
    [pattern |-> pattern, label |-> label, severity |-> severity, first_only |-> first_only]

JournalRules ==
    << Rule("Linux version", "KERNEL_BOOT", "info", TRUE),
       Rule(".*link becomes ready", "LINK_READY", "info", FALSE),
       Rule("DHCPDISCOVER", "EPHEMERAL_DHCP_DISCOVER", "info", FALSE),
       Rule("DHCPOFFER", "EPHEMERAL_DHCP_OFFER", "info", FALSE),
       Rule("DHCPREQUEST", "EPHEMERAL_DHCP_REQUEST", "info", FALSE),
       Rule("DHCPACK", "EPHEMERAL_DHCP_ACK", "info", FALSE),
       Rule("systemd .* running in system mode.*", "SYSTEMD_STARTED", "info", FALSE),
       Rule("Server listening on 0.0.0.0 port 22", "SSH_LISTENING", "info", FALSE),
       Rule("Accepted publickey", "SSH_ACCEPTED_CONNECTION", "info", TRUE),
       Rule("Startup finished in.*(firmware).*", "STARTUP_FINISHED", "info", TRUE),
       Rule("running 'init-local'", "CLOUDINIT_RUNNING_INIT_LOCAL", "info", FALSE),
       Rule("running 'init'", "CLOUDINIT_RUNNING_INIT", "info", FALSE),
       Rule("running 'modules:config'", "CLOUDINIT_RUNNING_MODULES_CONFIG", "info", FALSE),
       Rule("running 'modules:final'", "CLOUDINIT_RUNNING_MODULES_FINAL", "info", FALSE),
       Rule("finished at", "CLOUDINIT_FINISHED", "info", FALSE),
       Rule("Your identification has been saved in /etc/ssh/ssh_host_ecdsa_key",
            "SSH_HOST_KEYS_GENERATED", "info", FALSE),
       Rule("^new group:", "CREATED_GROUP", "info", FALSE),
       Rule("^new user:", "CREATED_USER", "info", FALSE),
       Rule("^Starting", "SERVICE_STARTING", "info", FALSE),
       Rule("^Started", "SERVICE_STARTED", "info", FALSE),
       Rule("^Reached target", "TARGET_REACHED", "info", FALSE),
       Rule("System clock wrong", "CHRONY_SYSTEM_CLOCK_WRONG", "warning", FALSE),
       Rule("System clock was stepped", "CHRONY_SYSTEM_CLOCK_STEPPED", "warning", FALSE),
       Rule("segfault", "SEGFAULT", "warning", FALSE) >>

\* a loop that never breaks
JournalRuleEvents_NoBreak(entries, rule) ==
    LET found == JournalFindEntries(entries, rule.pattern)
    IN  [k \in 1..Len(found) |-> JournalAsEvent(found[k], rule.label, rule.severity)]

\* one loop of get_events_of_interest: the events it appends
JournalRuleEvents(entries, rule) ==
    LET found == JournalFindEntries(entries, rule.pattern)
        taken == IF rule.first_only /\ Len(found) > 1 THEN SubSeq(found, 1, 1) ELSE found
    IN  [k \in 1..Len(taken) |-> JournalAsEvent(taken[k], rule.label, rule.severity)]

RECURSIVE JournalEventsFrom(_, _)
JournalEventsFrom(entries, r) ==
    IF r > Len(JournalRules) THEN <<>>
    ELSE JournalRuleEvents(entries, JournalRules[r]) \o JournalEventsFrom(entries, r + 1)

\* Journal.get_events_of_interest
JournalEventsOfInterest(entries) == JournalEventsFrom(entries, 1)

(***************************************************************************)
(* Journal.parse_json.  A raw record is a line of journalctl -o json; a    *)
(* line that is no JSON object, has no MESSAGE or has no timestamp makes   *)
(* JournalEntry.parse raise.  The k-th record carries the timestamps k.    *)
(***************************************************************************)
JournalFaults == {"JSONDecodeError", "KeyError", "AssertionError"}

JournalMessages == {MsgKernel, MsgBooting, MsgAccepted, MsgStarted, MsgSegfault, MsgOther}

RawRecord(shape, k) ==
    IF shape \in JournalFaults
    THEN [fault |-> shape, MESSAGE |-> None, timestamp |-> k]
    ELSE [fault |-> None, MESSAGE |-> shape, timestamp |-> k]

\* JournalEntry.parse(json.loads(log))
JournalEntryParse(raw) ==
    [message |-> raw.MESSAGE,
     timestamp_realtime |-> raw.timestamp,
     timestamp_monotonic |-> raw.timestamp]

InitJournal ==
    /\ \E n \in 0..MaxRecords : \E s \in [1..n -> JournalMessages \cup JournalFaults] :
          j_logs = [k \in 1..n |-> RawRecord(s[k], k)]
    /\ j_entries = <<>>
    /\ j_i = 0
    /\ j_boot_entries = <<>>
    /\ journals = <<>>
    /\ j_events = <<>>
    /\ j_status = "init"
    /\ IdleFrames
    /\ IdleWalk
    /\ IdleLoad
    /\ IdleAnalyze
    /\ IdleSystemd
    /\ IdleParse
    /\ IdleSsh

\* entries = [JournalEntry.parse(json.loads(log)) for log in logs.splitlines()]
ParseJsonEntries ==
    /\ j_status = "init"
    /\ LET faulty == {k \in DOMAIN j_logs : j_logs[k].fault # None}
       IN  IF faulty # {}
           THEN /\ j_status' = j_logs[CHOOSE k \in faulty : \A m \in faulty : k <= m].fault
                /\ UNCHANGED j_entries
           ELSE /\ j_entries' = [k \in DOMAIN j_logs |-> JournalEntryParse(j_logs[k])]
                /\ j_status' = "segmenting"
    /\ UNCHANGED <<j_logs, j_i, j_boot_entries, journals, j_events, otherThanJournal>>

\* a split at every "Linux version" entry, whatever the buffer holds
ParseJsonIsBoundary_Unguarded(entry, buffered) ==
    StartsWithLinuxVersion(entry.message)

\* if entry.message.startswith("Linux version") and boot_entries: ...
ParseJsonIsBoundary(entry, buffered) ==
    StartsWithLinuxVersion(entry.message) /\ buffered # <<>>

ParseJsonBoundary ==
    /\ j_status = "segmenting"
    /\ j_i < Len(j_entries)
    /\ ParseJsonIsBoundary(j_entries[j_i + 1], j_boot_entries)
    /\ journals' = Append(journals, j_boot_entries)
    /\ j_boot_entries' = <<j_entries[j_i + 1]>>
    /\ j_i' = j_i + 1
    /\ UNCHANGED <<j_logs, j_entries, j_events, j_status, otherThanJournal>>

\* else: boot_entries.append(entry)
ParseJsonAppend ==
    /\ j_status = "segmenting"
    /\ j_i < Len(j_entries)
    /\ ~ ParseJsonIsBoundary(j_entries[j_i + 1], j_boot_entries)
    /\ j_boot_entries' = Append(j_boot_entries, j_entries[j_i + 1])
    /\ j_i' = j_i + 1
    /\ UNCHANGED <<j_logs, j_entries, journals, j_events, j_status, otherThanJournal>>

\* if boot_entries: journals.append(...); return journals
ParseJsonReturn ==
    /\ j_status = "segmenting"
    /\ j_i = Len(j_entries)
    /\ journals' = IF j_boot_entries # <<>> THEN Append(journals, j_boot_entries)
                   ELSE journals
    /\ j_status' = "returned"
    /\ UNCHANGED <<j_logs, j_entries, j_i, j_boot_entries, j_events, otherThanJournal>>

\* journal.get_events_of_interest() for the next boot of the returned list
JournalClassifyBoot ==
    /\ j_status = "returned"
    /\ Len(j_events) < Len(journals)
    /\ j_events' = Append(j_events, JournalEventsOfInterest(journals[Len(j_events) + 1]))
    /\ UNCHANGED <<j_logs, j_entries, j_i, j_boot_entries, journals, j_status,
                   otherThanJournal>>

NextJournal ==
    \/ ParseJsonEntries
    \/ ParseJsonBoundary
    \/ ParseJsonAppend
    \/ ParseJsonReturn
    \/ JournalClassifyBoot

SpecJournal == InitJournal /\ [][NextJournal]_vars


(***************************************************************************)
(* cloudinit.py: CloudInitEntry.  An uptime hint `Up <U> seconds` counts   *)
(* U in ticks.                                                             *)
(***************************************************************************)
MsgClosing == "Closing stdin."
MsgGetData == "_get_data"
MsgError == "ERROR: failed to fetch metadata"
MsgTraceback == "Traceback (most recent call last):"

\* re.search(".* Up (.*) seconds", message): the match and float(group)
HasUptime(message) == message \in {MsgInitLocal, MsgInit, MsgFinished}
Uptime(message) ==
    CASE message = MsgInitLocal -> 1
      [] message = MsgInit      -> 2
      [] message = MsgFinished  -> 3
      [] OTHER                  -> 0

\* CloudInitEntry.is_start_of_boot_record
is_start_of_boot_record(message) == message = MsgInitLocal

\* time.calculate_reference_timestamp
calculate_reference_timestamp(timestamp, monotonic_time) == timestamp - monotonic_time

\* CloudInitEntry.estimate_timestamp_monotonic
estimate_timestamp_monotonic(entry, reference) ==
    [entry EXCEPT !.timestamp_monotonic = entry.timestamp_realtime - reference]

\* the reference is returned, but the entry keeps the estimate it had
check_for_monotonic_reference_KeepsEstimate(entry) ==
    IF ~ HasUptime(entry.message)
    THEN [entry |-> entry, reference |-> NoTime]
    ELSE [entry |-> entry,
          reference |-> Time(calculate_reference_timestamp(entry.timestamp_realtime,
                                                           Uptime(entry.message)))]


\* CloudInitEntry.check_for_monotonic_reference: the entry as it leaves it, and
\* the reference it returns
check_for_monotonic_reference(entry) ==
    IF ~ HasUptime(entry.message)
    THEN [entry |-> entry, reference |-> NoTime]
    ELSE LET r == calculate_reference_timestamp(entry.timestamp_realtime,
                                                Uptime(entry.message))
         IN  [entry |-> estimate_timestamp_monotonic(entry, r), reference |-> Time(r)]

\* CloudInitEntry.parse of a line that matches the grammar
CloudInitEntryParse(line, reference) ==
    LET entry == [event_type |-> line.event_type,
                  stage |-> line.stage,
                  module |-> line.module,
                  result |-> line.result,
                  message |-> line.message,
                  timestamp_realtime |-> line.ts,
                  timestamp_monotonic |-> 0]
    IN  IF reference.some
        THEN estimate_timestamp_monotonic(entry, reference.at)
        ELSE check_for_monotonic_reference(entry).entry

(***************************************************************************)
(* CloudInitEntry.parse on the text of a line.  A text is the sequence of  *)
(* its pieces: the separators " - ", "[", "]" and ": " and words that hold *)
(* none of the characters of a separator.  An unset Optional[str] is       *)
(* Unset, a set one is Text(t).                                            *)
(***************************************************************************)
Dash == " - "
LB == "["
RB == "]"
CS == ": "
Hint == " Up 1 seconds"

Unset == [set |-> FALSE, text |-> <<>>]
Text(t) == [set |-> TRUE, text |-> t]

Max(S) == CHOOSE x \in S : \A y \in S : y <= x

\* re.search(r"(.*) - (.*)\[(.*)\]: (.*)", log_line): every group is greedy,
\* so the "]: " taken is the last of the line, the "[" the last before it and
\* the " - " the last before that "["
LineMatch(s) ==
    LET closes == {k \in DOMAIN s : k < Len(s) /\ s[k] = RB /\ s[k + 1] = CS}
        k == Max(closes)
        opens == IF closes = {} THEN {} ELSE {j \in DOMAIN s : j < k /\ s[j] = LB}
        j == Max(opens)
        dashes == IF opens = {} THEN {} ELSE {i \in DOMAIN s : i < j /\ s[i] = Dash}
        i == Max(dashes)
    IN  IF dashes = {} THEN [matched |-> FALSE]
        ELSE [matched |-> TRUE,
              ts |-> SubSeq(s, 1, i - 1),
              python_module |-> SubSeq(s, i + 1, j - 1),
              log_level |-> SubSeq(s, j + 1, k - 1),
              message |-> SubSeq(s, k + 2, Len(s))]

\* dateutil.parser.isoparse(ts): the one word "ts" is a timestamp, at tick TsTick
TsTick == 2
IsTimestamp(ts) == ts = <<"ts">>

\* message.startswith("start:"), message.startswith("finish:")
StartsWith(message, word) ==
    Len(message) >= 2 /\ message[1] = word /\ message[2] = CS

\* message.split(": ")
RECURSIVE Split(_)
Split(message) ==
    IF \A k \in DOMAIN message : message[k] # CS THEN <<message>>
    ELSE LET k == CHOOSE x \in DOMAIN message :
                     /\ message[x] = CS
                     /\ \A y \in 1..(x - 1) : message[y] # CS
         IN  <<SubSeq(message, 1, k - 1)>> \o Split(SubSeq(message, k + 1, Len(message)))

\* ": ".join(split[from:])
RECURSIVE Join(_, _)
Join(split, from) ==
    IF from > Len(split) THEN <<>>
    ELSE IF from = Len(split) THEN split[from]
    ELSE split[from] \o <<CS>> \o Join(split, from + 1)

\* the classification of the message, from `event_type = "log"` to the split
\* of the stage off the module
ParseBody(message) ==
    LET log == [raises |-> None, event_type |-> "log", module |-> Unset,
                result |-> Unset, stage |-> Unset, message |-> message]
        fsplit == Split(message)
        finish == IF ~ StartsWith(message, "finish") THEN log
                  ELSE IF Len(fsplit) < 3 THEN [log EXCEPT !.raises = "IndexError"]
                  ELSE [log EXCEPT !.event_type = "finish",
                                   !.module = Text(fsplit[2]),
                                   !.result = Text(fsplit[3]),
                                   !.message = Join(fsplit, 4)]
        ssplit == Split(finish.message)
        start == IF finish.raises # None \/ ~ StartsWith(finish.message, "start")
                 THEN finish
                 ELSE [finish EXCEPT !.event_type = "start",
                                     !.module = Text(ssplit[2]),
                                     !.message = Join(ssplit, 3)]
    IN  IF /\ start.raises = None
           /\ start.module.text # <<>>
           /\ start.module.text[1] = "init-local/m"
        THEN [start EXCEPT !.stage = Text(<<"init-local">>),
                           !.module = Text(<<"m">> \o Tail(start.module.text))]
        ELSE start

\* re.search(".* Up (.*) seconds", self.message) and float(group)
HasUptimeText(message) == \E k \in DOMAIN message : message[k] = Hint
UptimeText(message) == 1

\* entry = cls(...); then estimate_timestamp_monotonic or check_for_monotonic_reference
ParseEntry(groups, body, reference) ==
    LET entry == [event_type |-> body.event_type,
                  log_level |-> groups.log_level,
                  message |-> body.message,
                  module |-> body.module,
                  python_module |-> groups.python_module,
                  result |-> body.result,
                  stage |-> body.stage,
                  timestamp_realtime |-> TsTick,
                  timestamp_monotonic |-> 0]
    IN  IF reference.some
        THEN estimate_timestamp_monotonic(entry, reference.at)
        ELSE IF HasUptimeText(entry.message)
        THEN estimate_timestamp_monotonic(entry,
                 calculate_reference_timestamp(entry.timestamp_realtime,
                                               UptimeText(entry.message)))
        ELSE entry

(***************************************************************************)
(* The lines given to parse: `ts - py[LVL]: ` before a body that is a      *)
(* start, a finish or neither, its trailing text being any MaxBody pieces. *)
(***************************************************************************)
LinePrefix == <<"ts", Dash, "py", LB, "LVL", RB, CS>>
BodyPieces == {"x", CS, LB, RB, Dash, "start", Hint}
ModuleWords == {"m", "init-local/m"}
ResultWords == {"SUCCESS", "FAIL"}

StartBody(module, tail) == <<"start", CS, module, CS>> \o tail
FinishBody(module, result, tail) == <<"finish", CS, module, CS, result, CS>> \o tail

InitParse ==
    /\ \E n \in 0..MaxBody : \E tail \in [1..n -> BodyPieces] :
          \/ pe_log_line = LinePrefix \o tail
          \/ \E module \in ModuleWords : pe_log_line = LinePrefix \o StartBody(module, tail)
          \/ \E module \in ModuleWords : \E result \in ResultWords :
                pe_log_line = LinePrefix \o FinishBody(module, result, tail)
          \/ n = 0 /\ pe_log_line \in {<<"x">>, LinePrefix \o <<"finish", CS, "m">>}
    /\ pe_reference \in {NoTime, Time(1)}
    /\ pe_match = None
    /\ pe_body = None
    /\ pe_entry = None
    /\ pe_status = "matching"
    /\ IdleFrames
    /\ IdleWalk
    /\ IdleJournal
    /\ IdleLoad
    /\ IdleAnalyze
    /\ IdleSystemd
    /\ IdleSsh

\* line_match = re.search(...); ts, python_module, log_level, message =
\* line_match.groups(); timestamp_realtime = cls.convert_timestamp_to_datetime(ts)
ParseMatchLine ==
    /\ pe_status = "matching"
    /\ LET groups == LineMatch(pe_log_line)
       IN  IF ~ groups.matched
           THEN pe_status' = "ValueError" /\ pe_match' = pe_match
           ELSE IF ~ IsTimestamp(groups.ts)
           THEN pe_status' = "ValueError" /\ pe_match' = pe_match
           ELSE pe_status' = "classifying" /\ pe_match' = groups
    /\ UNCHANGED <<pe_log_line, pe_reference, pe_body, pe_entry, otherThanParse>>

ParseClassify ==
    /\ pe_status = "classifying"
    /\ LET body == ParseBody(pe_match.message)
       IN  IF body.raises # None
           THEN pe_status' = body.raises /\ pe_body' = pe_body
           ELSE pe_status' = "building" /\ pe_body' = body
    /\ UNCHANGED <<pe_log_line, pe_reference, pe_match, pe_entry, otherThanParse>>

ParseReturn ==
    /\ pe_status = "building"
    /\ pe_entry' = ParseEntry(pe_match, pe_body, pe_reference)
    /\ pe_status' = "returned"
    /\ UNCHANGED <<pe_log_line, pe_reference, pe_match, pe_body, otherThanParse>>

NextParse ==
    \/ ParseMatchLine
    \/ ParseClassify
    \/ ParseReturn

SpecParse == InitParse /\ [][NextParse]_vars


(***************************************************************************)
(* CloudInit.load(): the body of `for line in logs.splitlines()`.          *)
(***************************************************************************)
StageNames == <<"init-local", "init-network", "modules-config", "modules-final">>

\* for stage in [...]: if entry.stage and entry.stage.startswith(stage): last_stage = stage
StageAfter(entry, stage_before) ==
    IF entry.stage # None /\ \E k \in DOMAIN StageNames : StageNames[k] = entry.stage
    THEN entry.stage
    ELSE stage_before

\* the entry of line k with its timestamp left as parsed
LoadedEntry_NoNudge(k) ==
    LET e1 == CloudInitEntryParse(ci_lines[k], reference_monotonic)
        stage == StageAfter(e1, last_stage)
        e2 == IF e1.stage = None THEN [e1 EXCEPT !.stage = stage] ELSE e1
        chk == check_for_monotonic_reference(e2)
    IN  [entry |-> chk.entry,
         last_stage |-> stage,
         last_timestamp |-> Time(e2.timestamp_realtime),
         reference |-> IF chk.reference.some THEN chk.reference ELSE reference_monotonic]


\* the entry of line k from its parse up to the update of reference_monotonic
LoadedEntry(k) ==
    LET e1 == CloudInitEntryParse(ci_lines[k], reference_monotonic)
        stage == StageAfter(e1, last_stage)
        e2 == IF e1.stage = None THEN [e1 EXCEPT !.stage = stage] ELSE e1
        e3 == IF last_timestamp.some /\ e2.timestamp_realtime <= last_timestamp.at
              THEN [e2 EXCEPT !.timestamp_realtime = last_timestamp.at + 1]
              ELSE e2
        chk == check_for_monotonic_reference(e3)
    IN  [entry |-> chk.entry,
         last_stage |-> stage,
         last_timestamp |-> Time(e3.timestamp_realtime),
         reference |-> IF chk.reference.some THEN chk.reference ELSE reference_monotonic]

\* for entry in boot_entries: if entry.timestamp_monotonic == 0.0 and
\* reference_monotonic: entry.estimate_timestamp_monotonic(reference_monotonic)
EstimateUnset(entries, ids, reference) ==
    [id \in DOMAIN entries |->
        IF /\ \E p \in DOMAIN ids : ids[p] = id
           /\ entries[id].timestamp_monotonic = 0
           /\ reference.some
        THEN estimate_timestamp_monotonic(entries[id], reference.at)
        ELSE entries[id]]

\* `for entry in boot_entries` rebinds the name entry: when the loop is over
\* it names the last entry of boot_entries, not the entry of line k
EntryAfterEstimationLoop(ids, k) == ids[Len(ids)]

WithEntry(entries, k, entry) ==
    [id \in DOMAIN entries \cup {k} |-> IF id = k THEN entry ELSE entries[id]]

CloudInitMessages == {MsgClosing, MsgInit, MsgInitLocal}

LineShapes ==
    [parses : {TRUE}, event_type : {"log"}, stage : {None}, module : {None},
     result : {None}, message : CloudInitMessages, ts : 0..MaxTick]
    \cup
    [parses : {TRUE}, event_type : {"start"}, stage : {"init-network"}, module : {"m1"},
     result : {None}, message : {MsgGetData}, ts : 0..MaxTick]
    \cup
    [parses : {FALSE}, event_type : {None}, stage : {None}, module : {None},
     result : {None}, message : {None}, ts : {0}]

InitLoad ==
    /\ \E n \in 0..MaxLines : ci_lines \in [1..n -> LineShapes]
    /\ ci_i = 0
    /\ ci_entries = <<>>
    /\ boot_entries = <<>>
    /\ boot_logs = <<>>
    /\ cloudinits = <<>>
    /\ reference_monotonic = NoTime
    /\ last_timestamp = NoTime
    /\ last_stage = "init-local"
    /\ ci_status = "running"
    /\ IdleFrames
    /\ IdleWalk
    /\ IdleJournal
    /\ IdleAnalyze
    /\ IdleSystemd
    /\ IdleParse
    /\ IdleSsh

\* except ValueError: continue (finally: boot_logs.append(line))
LoadSkipLine ==
    /\ ci_status = "running"
    /\ ci_i < Len(ci_lines)
    /\ ~ ci_lines[ci_i + 1].parses
    /\ boot_logs' = Append(boot_logs, ci_i + 1)
    /\ ci_i' = ci_i + 1
    /\ UNCHANGED <<ci_lines, ci_entries, boot_entries, cloudinits, reference_monotonic,
                   last_timestamp, last_stage, ci_status, otherThanLoad>>

\* if entry.is_start_of_boot_record() and boot_entries: ...
LoadSplit ==
    /\ ci_status = "running"
    /\ ci_i < Len(ci_lines)
    /\ ci_lines[ci_i + 1].parses
    /\ LET k == ci_i + 1
           loaded == LoadedEntry(k)
       IN  /\ is_start_of_boot_record(loaded.entry.message)
           /\ boot_entries # <<>>
           /\ ci_entries' = EstimateUnset(WithEntry(ci_entries, k, loaded.entry),
                                          boot_entries, loaded.reference)
           /\ cloudinits' = Append(cloudinits,
                                   [entries |-> boot_entries,
                                    reference_monotonic |-> loaded.reference,
                                    logs |-> Append(boot_logs, k)])
           /\ boot_entries' = <<EntryAfterEstimationLoop(boot_entries, k)>>
           /\ boot_logs' = <<>>
           /\ last_stage' = "init-local"
           /\ last_timestamp' = loaded.last_timestamp
           /\ reference_monotonic' = loaded.reference
    /\ ci_i' = ci_i + 1
    /\ UNCHANGED <<ci_lines, ci_status, otherThanLoad>>

\* else: boot_entries.append(entry)
LoadAppend ==
    /\ ci_status = "running"
    /\ ci_i < Len(ci_lines)
    /\ ci_lines[ci_i + 1].parses
    /\ LET k == ci_i + 1
           loaded == LoadedEntry(k)
       IN  /\ ~ (is_start_of_boot_record(loaded.entry.message) /\ boot_entries # <<>>)
           /\ ci_entries' = WithEntry(ci_entries, k, loaded.entry)
           /\ boot_entries' = Append(boot_entries, k)
           /\ boot_logs' = Append(boot_logs, k)
           /\ last_stage' = loaded.last_stage
           /\ last_timestamp' = loaded.last_timestamp
           /\ reference_monotonic' = loaded.reference
    /\ ci_i' = ci_i + 1
    /\ UNCHANGED <<ci_lines, cloudinits, ci_status, otherThanLoad>>

\* if boot_entries: cloudinits.append(...); return cloudinits
LoadReturn ==
    /\ ci_status = "running"
    /\ ci_i = Len(ci_lines)
    /\ cloudinits' = IF boot_entries # <<>>
                     THEN Append(cloudinits,
                                 [entries |-> boot_entries,
                                  reference_monotonic |-> reference_monotonic,
                                  logs |-> boot_logs])
                     ELSE cloudinits
    /\ ci_status' = "returned"
    /\ UNCHANGED <<ci_lines, ci_i, ci_entries, boot_entries, boot_logs,
                   reference_monotonic, last_timestamp, last_stage, otherThanLoad>>

NextLoad ==
    \/ LoadSkipLine
    \/ LoadSplit
    \/ LoadAppend
    \/ LoadReturn

SpecLoad == InitLoad /\ [][NextLoad]_vars


(***************************************************************************)
(* cloudinit.py: CloudInit.get_events_of_interest                          *)
(***************************************************************************)
CloudInitEventFields ==
    EventFields \cup {"log_line", "log_level", "message", "result", "event_type",
                      "stage", "module", "python_module"}

\* CloudInitEntry.as_event: the keyword arguments of
\* CloudInitEvent(**self.__dict__, label=label, source="cloudinit")
CloudInitAsEventKwargs(entry, label) ==
    [log_line |-> entry.message,
     log_level |-> "DEBUG",
     message |-> entry.message,
     module |-> entry.module,
     python_module |-> "util.py",
     result |-> entry.result,
     timestamp_realtime |-> entry.timestamp_realtime,
     timestamp_monotonic |-> entry.timestamp_monotonic,
     event_type |-> entry.event_type,
     stage |-> entry.stage,
     label |-> label,
     source |-> "cloudinit"]

\* re.search(pattern, message) for the patterns of get_events_of_interest
CloudInitMatches(pattern, message) ==
    \/ pattern = ""
    \/ pattern = "running 'init-local'" /\ message = MsgInitLocal
    \/ pattern = "running 'init'" /\ message = MsgInit
    \/ pattern = "finished at" /\ message = MsgFinished
    \/ pattern = "_get_data" /\ message = MsgGetData
    \/ pattern = "ERROR" /\ message = MsgError
    \/ pattern = "Traceback" /\ message = MsgTraceback

\* CloudInit.find_entries
CloudInitFindEntries(entries, pattern, event_type) ==
    SelectSeq(entries, LAMBDA e : /\ CloudInitMatches(pattern, e.message)
                                  /\ (event_type = None \/ event_type = e.event_type))

Find(pattern, event_type, label) ==
    [pattern |-> pattern, event_type |-> event_type, label |-> label]

\* the loops over find_entries, in the order of the source
CloudInitRules ==
    << Find("running 'init-local'", None, "CLOUDINIT_RUNNING_INIT_LOCAL"),
       Find("running 'init'", None, "CLOUDINIT_RUNNING_INIT"),
       Find("running 'modules:config'", None, "CLOUDINIT_RUNNING_MODULES_CONFIG"),
       Find("running 'modules:final'", None, "CLOUDINIT_RUNNING_MODULES_FINAL"),
       Find("finished at", None, "CLOUDINIT_FINISHED"),
       Find("PPS type:", None, "CLOUDINIT_PPS_TYPE"),
       Find("PreprovisionedVMType:", None, "CLOUDINIT_PPS_TYPE"),
       Find("", "start", "CLOUDINIT_FRAME_START"),
       Find("", "finish", "CLOUDINIT_FRAME_FINISH"),
       Find("ERROR", None, "WARNING_CLOUDINIT_ERROR"),
       Find("WARNING", None, "WARNING_CLOUDINIT_WARNING"),
       Find("CRITICAL", None, "WARNING_CLOUDINIT_CRITICAL"),
       Find("Traceback", None, "WARNING_CLOUDINIT_TRACEBACK") >>

Labelled(found, label) == [k \in 1..Len(found) |-> [entry |-> found[k], label |-> label]]

\* f"WARNING_UNEXPECTED_FAILURE {entry.result}"
FailureLabel(result) ==
    IF result = "FAIL" THEN "WARNING_UNEXPECTED_FAILURE FAIL" ELSE "WARNING_UNEXPECTED_FAILURE"

RECURSIVE CloudInitRuleCallsFrom(_, _)
CloudInitRuleCallsFrom(entries, r) ==
    IF r > Len(CloudInitRules) THEN <<>>
    ELSE Labelled(CloudInitFindEntries(entries, CloudInitRules[r].pattern,
                                       CloudInitRules[r].event_type),
                  CloudInitRules[r].label)
         \o CloudInitRuleCallsFrom(entries, r + 1)

\* every call entry.as_event(label) that get_events_of_interest makes, in order
CloudInitAsEventCalls(entries) ==
    LET failed == SelectSeq(entries, LAMBDA e : /\ e.result \notin {None, "SUCCESS"}
                                                /\ e.message # "load_azure_ds_dir")
        get_data == CloudInitFindEntries(entries, "_get_data", "start")
    IN  CloudInitRuleCallsFrom(entries, 1)
        \o [k \in 1..Len(failed) |->
                [entry |-> failed[k], label |-> FailureLabel(failed[k].result)]]
        \o Labelled(CloudInitFindEntries(entries, "FAIL", None), "WARNING_CLOUDINIT_FAIL")
        \o Labelled(SubSeq(get_data, 2, Len(get_data)),
                    "WARNING_CLOUDINIT_UNEXPECTED_GET_DATA")

\* CloudInit.get_events_of_interest: the events, or the exception that leaves it
CloudInitEventsOfInterest(entries) ==
    LET got == get_frames(entries)
        calls == CloudInitAsEventCalls(entries)
        kwargs == [k \in DOMAIN calls |->
                      CloudInitAsEventKwargs(calls[k].entry, calls[k].label)]
    IN  IF got.status # "returned"
        THEN [raises |-> got.status, events |-> <<>>]
        ELSE IF \E k \in DOMAIN kwargs :
                    DataclassInit(CloudInitEventFields, kwargs[k]) # "ok"
        THEN [raises |-> "TypeError", events |-> <<>>]
        ELSE [raises |-> None, events |-> got.frames \o kwargs]

(***************************************************************************)
(* systemd.py: Systemd.get_events_of_interest.  A realtime timestamp that   *)
(* is unset (None) is 0.                                                   *)
(***************************************************************************)
\* SystemdUnitShow.get_time_of_activation_realtime
get_time_of_activation_realtime(u) ==
    IF u.active_enter_timestamp # 0
    THEN Value(u.active_enter_timestamp)
    ELSE IF u.exec_main_exit_timestamp # 0
    THEN Value(u.exec_main_exit_timestamp)
    ELSE IF u.inactive_exit_timestamp # 0
    THEN Value(u.inactive_exit_timestamp)
    ELSE ValueError

\* SystemdUnit.is_viable_event
is_viable_event(u) ==
    /\ ~ get_time_to_activate(u).raises
    /\ ~ get_time_of_activation(u).raises
    /\ ~ get_time_of_activation_realtime(u).raises

\* SystemdUnit.as_event
SystemdUnitAsEvent(name, u) ==
    [label |-> "SYSTEMD_UNIT",
     source |-> "systemd",
     unit |-> name,
     time_to_activate |-> get_time_to_activate(u).value,
     time_of_activation |-> get_time_of_activation(u).value,
     timestamp_monotonic |-> get_time_of_activation(u).value,
     timestamp_realtime |-> get_time_of_activation_realtime(u).value,
     status |-> u.active,
     severity |-> IF is_failed(u) THEN "warning" ELSE "info"]

\* Systemd.as_event
SystemdAsEvent(sd) ==
    [label |-> "SYSTEMD_SYSTEM",
     source |-> "systemd",
     timestamp_monotonic |-> sd.finish_timestamp_monotonic,
     timestamp_realtime |-> sd.finish_timestamp,
     userspace_timestamp |-> sd.userspace_timestamp,
     userspace_timestamp_monotonic |-> sd.userspace_timestamp_monotonic,
     finish_timestamp |-> sd.finish_timestamp,
     finish_timestamp_monotonic |-> sd.finish_timestamp_monotonic,
     system_state |-> sd.system_state,
     severity |-> IF sd.system_state # "running" THEN "warning" ELSE "info"]

\* Systemd.get_events_of_interest; self.units is listed in the order of the names
SystemdEventsOfInterest(sd, the_units) ==
    LET viable == SelectSeq(sorted(DOMAIN the_units),
                            LAMBDA n : is_viable_event(the_units[n]))
    IN  [k \in 1..Len(viable) |-> SystemdUnitAsEvent(viable[k], the_units[viable[k]])]
        \o <<SystemdAsEvent(sd)>>

(***************************************************************************)
(* Systemd.get_events_of_interest on a snapshot whose unit A has any       *)
(* combination of timestamps; t lists the five monotonic timestamps of     *)
(* systemctl show, and the realtime ones are their twins or all n/a.       *)
(***************************************************************************)
ShownUnit(t, realtime) ==
    [after |-> {},
     active |-> "active",
     condition_result |-> TRUE,
     active_enter_timestamp_monotonic |-> t[1],
     inactive_exit_timestamp_monotonic |-> t[2],
     inactive_enter_timestamp_monotonic |-> t[3],
     exec_main_start_timestamp_monotonic |-> t[4],
     exec_main_exit_timestamp_monotonic |-> t[5],
     active_enter_timestamp |-> IF realtime THEN t[1] ELSE 0,
     inactive_exit_timestamp |-> IF realtime THEN t[2] ELSE 0,
     exec_main_exit_timestamp |-> IF realtime THEN t[5] ELSE 0]

InitSystemd ==
    /\ sd_system = [given |-> TRUE, finish_timestamp |-> MaxMono,
                    finish_timestamp_monotonic |-> MaxMono,
                    userspace_timestamp |-> 0, userspace_timestamp_monotonic |-> 0,
                    system_state |-> "running"]
    /\ \E t \in [1..5 -> 0..MaxMono] : \E realtime \in BOOLEAN :
       \E other \in {"absent", "ok", "never"} :
          sd_units = [n \in (IF other = "absent" THEN {"A"} ELSE {"A", "B"}) |->
                         IF n = "A" THEN ShownUnit(t, realtime)
                         ELSE UnitOfKind(other, {})]
    /\ sd_i = 0
    /\ sd_events = <<>>
    /\ sd_status = "running"
    /\ IdleFrames
    /\ IdleWalk
    /\ IdleJournal
    /\ IdleLoad
    /\ IdleAnalyze
    /\ IdleParse
    /\ IdleSsh

\* [u.as_event() for u in self.units.values() if u.is_viable_event()]: a unit kept
SystemdTakeUnit ==
    /\ sd_status = "running"
    /\ sd_i < Len(sorted(DOMAIN sd_units))
    /\ LET name == sorted(DOMAIN sd_units)[sd_i + 1]
       IN  /\ is_viable_event(sd_units[name])
           /\ sd_events' = Append(sd_events, SystemdUnitAsEvent(name, sd_units[name]))
    /\ sd_i' = sd_i + 1
    /\ UNCHANGED <<sd_system, sd_units, sd_status, otherThanSystemd>>

\* a unit the comprehension leaves out
SystemdOmitUnit ==
    /\ sd_status = "running"
    /\ sd_i < Len(sorted(DOMAIN sd_units))
    /\ ~ is_viable_event(sd_units[sorted(DOMAIN sd_units)[sd_i + 1]])
    /\ sd_i' = sd_i + 1
    /\ UNCHANGED <<sd_system, sd_units, sd_events, sd_status, otherThanSystemd>>

\* events.append(self.as_event()); return events
SystemdReturn ==
    /\ sd_status = "running"
    /\ sd_i = Len(sorted(DOMAIN sd_units))
    /\ sd_events' = Append(sd_events, SystemdAsEvent(sd_system))
    /\ sd_status' = "returned"
    /\ UNCHANGED <<sd_system, sd_units, sd_i, otherThanSystemd>>

NextSystemd ==
    \/ SystemdTakeUnit
    \/ SystemdOmitUnit
    \/ SystemdReturn

SpecSystemd == InitSystemd /\ [][NextSystemd]_vars


(***************************************************************************)
(* analyze.py: analyze_events.  The unit A stands for multi-user.target,   *)
(* the default service_name of analyze_units.                              *)
(***************************************************************************)
\* datetime.datetime.utcnow(): the call is made after every log was written
Now == MaxTick + 1

\* str(v) of a datetime
DatetimeStr(t) == [str |-> t]

DatetimeFields == {"timestamp_realtime", "userspace_timestamp", "finish_timestamp"}

\* Event.as_dict
AsDict(e) ==
    LET obj == [k \in DOMAIN e |-> IF k \in DatetimeFields THEN DatetimeStr(e[k]) ELSE e[k]]
    IN  IF e.severity = "info"
        THEN [k \in DOMAIN obj \ {"severity"} |-> obj[k]]
        ELSE obj

\* journals[-1:], cloudinits[-1:]
LastOnly(list) == IF list = <<>> THEN <<>> ELSE <<list[Len(list)]>>

Selected(list) == IF an_boot THEN LastOnly(list) ELSE list

\* the event appended whatever cloudinits holds
MissingEvents_Always(selected) ==
    << [label |-> "CLOUDINIT_LOGS_MISSING",
        source |-> "analyze",
        timestamp_realtime |-> Now,
        timestamp_monotonic |-> 0,
        severity |-> "warning"] >>

\* if not cloudinits: events.append(Event(label="CLOUDINIT_LOGS_MISSING", ...))
MissingEvents(selected) ==
    IF selected = <<>>
    THEN << [label |-> "CLOUDINIT_LOGS_MISSING",
             source |-> "analyze",
             timestamp_realtime |-> Now,
             timestamp_monotonic |-> 0,
             severity |-> "warning"] >>
    ELSE <<>>

\* a sort that puts an event before the events of the same timestamp collected earlier
RECURSIVE SortedByMonotonic_TiesReversed(_)
SortedByMonotonic_TiesReversed(evs) ==
    IF evs = <<>> THEN <<>>
    ELSE LET front == SortedByMonotonic_TiesReversed(SubSeq(evs, 1, Len(evs) - 1))
             e == evs[Len(evs)]
             n == Cardinality({k \in DOMAIN front :
                                  front[k].timestamp_monotonic < e.timestamp_monotonic})
         IN  SubSeq(front, 1, n) \o <<e>> \o SubSeq(front, n + 1, Len(front))


\* the events left in the order of their collection
SortedByMonotonic_Unsorted(evs) == evs

\* sorted(events, key=lambda x: x.timestamp_monotonic): a stable sort
RECURSIVE SortedByMonotonic(_)
SortedByMonotonic(evs) ==
    IF evs = <<>> THEN <<>>
    ELSE LET front == SortedByMonotonic(SubSeq(evs, 1, Len(evs) - 1))
             e == evs[Len(evs)]
             n == Cardinality({k \in DOMAIN front :
                                  front[k].timestamp_monotonic <= e.timestamp_monotonic})
         IN  SubSeq(front, 1, n) \o <<e>> \o SubSeq(front, n + 1, Len(front))

\* if event_types: events = [e for e in events if e.label in event_types]
FilterEventTypes(evs, types) ==
    IF types = {} THEN evs ELSE SelectSeq(evs, LAMBDA e : e.label \in types)

\* every event listed as a warning
Warnings_All(event_dicts) == event_dicts


\* [e for e in event_dicts if e.get("severity", "info") == "warning"]
Warnings(event_dicts) ==
    SelectSeq(event_dicts,
              LAMBDA d : (IF "severity" \in DOMAIN d THEN d.severity ELSE "info") = "warning")

RECURSIVE JournalsEvents(_)
JournalsEvents(list) ==
    IF list = <<>> THEN <<>>
    ELSE JournalEventsOfInterest(list[1]) \o JournalsEvents(Tail(list))

\* for cloudinit in cloudinits: events.extend(cloudinit.get_events_of_interest())
RECURSIVE CloudinitsEvents(_)
CloudinitsEvents(list) ==
    IF list = <<>> THEN [raises |-> None, events |-> <<>>]
    ELSE LET first == CloudInitEventsOfInterest(list[1])
             rest == CloudinitsEvents(Tail(list))
         IN  IF first.raises # None THEN first
             ELSE IF rest.raises # None THEN rest
             ELSE [raises |-> None, events |-> first.events \o rest.events]

(***************************************************************************)
(* The arguments of analyze_events.                                        *)
(***************************************************************************)
JournalEntryAt(message, t) ==
    [message |-> message, timestamp_realtime |-> t, timestamp_monotonic |-> t]

\* boots as Journal.parse_json cuts them: a "Linux version" entry is the first
\* of its boot, and the boots after the first begin with one
AnalyzeJournals ==
    {<<>>}
    \cup {<<<<JournalEntryAt(m, t)>>>> :
            m \in {MsgKernel, MsgStarted, MsgSegfault}, t \in 0..MaxMono}
    \cup {<<<<JournalEntryAt(m[1], t[1]), JournalEntryAt(m[2], t[2])>>>> :
            m \in {MsgKernel, MsgStarted, MsgSegfault} \X {MsgStarted, MsgSegfault},
            t \in {tt \in (0..MaxMono) \X (0..MaxMono) : tt[1] <= tt[2]}}
    \cup {<<<<JournalEntryAt(m, t[1])>>, <<JournalEntryAt(MsgKernel, t[2])>>>> :
            m \in {MsgStarted, MsgSegfault}, t \in (0..MaxMono) \X (0..MaxMono)}

CloudInitEntryAt(event_type, module, message, t) ==
    [event_type |-> event_type, stage |-> "init-local", module |-> module,
     result |-> None, message |-> message,
     timestamp_realtime |-> t, timestamp_monotonic |-> t]

QuietBoot == <<CloudInitEntryAt("log", None, MsgClosing, 1)>>
LoudBoot == <<CloudInitEntryAt("log", None, MsgInitLocal, 1)>>
FrameBoot == <<CloudInitEntryAt("start", "m1", MsgGetData, 1)>>

CloudInitFinishAt(module, result, message, t) ==
    [CloudInitEntryAt("finish", module, message, t) EXCEPT !.result = result]

\* a start of m1 answered by a finish of m2
MismatchBoot ==
    <<CloudInitEntryAt("start", "m1", MsgGetData, 1),
      CloudInitFinishAt("m2", "SUCCESS", MsgGetData, 2)>>
ErrorBoot == <<CloudInitEntryAt("log", None, MsgError, 1)>>
TracebackBoot == <<CloudInitEntryAt("log", None, MsgTraceback, 1)>>
FailBoot == <<CloudInitFinishAt("m1", "FAIL", MsgGetData, 1)>>

AnalyzeCloudinits ==
    {<<>>, <<QuietBoot>>, <<LoudBoot>>, <<FrameBoot>>, <<LoudBoot, QuietBoot>>,
     <<MismatchBoot>>, <<ErrorBoot>>, <<TracebackBoot>>, <<FailBoot>>}

AnalyzeUnits ==
    { [n \in {"A", "B", "C"} |->
          CASE n = "A" -> UnitOfKind("ok", {"B", "C"})
            [] n = "B" -> UnitOfKind("ok", {"A"})
            [] n = "C" -> UnitOfKind("inactive", {})],
      [n \in {"A"} |-> UnitOfKind("never", {})],
      [n \in {"B"} |-> UnitOfKind("ok", {})] }

NoSystemd ==
    [given |-> FALSE, finish_timestamp |-> 0, finish_timestamp_monotonic |-> 0,
     userspace_timestamp |-> 0, userspace_timestamp_monotonic |-> 0,
     system_state |-> None]

SystemdAt(t, state) ==
    [given |-> TRUE, finish_timestamp |-> t, finish_timestamp_monotonic |-> t,
     userspace_timestamp |-> 0, userspace_timestamp_monotonic |-> 0,
     system_state |-> state]

AnalyzeEventTypes ==
    {{}, {"CLOUDINIT_LOGS_MISSING", "SYSTEMD_SYSTEM"}, {"KERNEL_BOOT", "SYSTEMD_UNIT"}}

\* the defaults of analyze_units
DefaultWalkConfig ==
    [filter_conditional_result_no |-> FALSE, filter_inactive |-> TRUE,
     filter_services |-> {}, service_name |-> "A"]

AnalyzeExceptions == {"TypeError", "AssertionError", "ValueError", "AttributeError"}

InitAnalyze ==
    /\ an_journals \in AnalyzeJournals
    /\ an_cloudinits \in AnalyzeCloudinits
    /\ \/ an_systemd = NoSystemd /\ su_units = <<>>
       \/ /\ \E t \in 0..MaxMono : \E state \in {"running", "degraded"} :
                an_systemd = SystemdAt(t, state)
          /\ su_units \in AnalyzeUnits
    /\ an_boot \in BOOLEAN
    /\ an_event_types \in AnalyzeEventTypes
    /\ an_events = <<>>
    /\ an_result = None
    /\ an_status = "journals"
    /\ wk_cfg = DefaultWalkConfig
    /\ seen = {}
    /\ wk_stack = <<>>
    /\ units = <<>>
    /\ expanded = [n \in Names |-> 0]
    /\ wk_status = "idle"
    /\ IdleFrames
    /\ IdleJournal
    /\ IdleLoad
    /\ IdleSystemd
    /\ IdleParse
    /\ IdleSsh

\* for journal in journals: events.extend(journal.get_events_of_interest())
AnalyzeCollectJournals ==
    /\ an_status = "journals"
    /\ an_events' = an_events \o JournalsEvents(Selected(an_journals))
    /\ an_status' = "cloudinits"
    /\ UNCHANGED <<an_journals, an_cloudinits, an_systemd, an_boot, an_event_types,
                   an_result, walkVars, otherThanAnalyze>>

\* for cloudinit in cloudinits: events.extend(cloudinit.get_events_of_interest())
AnalyzeCollectCloudinits ==
    /\ an_status = "cloudinits"
    /\ LET got == CloudinitsEvents(Selected(an_cloudinits))
       IN  IF got.raises # None
           THEN /\ an_status' = got.raises
                /\ UNCHANGED an_events
           ELSE /\ an_events' = an_events \o got.events
                /\ an_status' = "systemd"
    /\ UNCHANGED <<an_journals, an_cloudinits, an_systemd, an_boot, an_event_types,
                   an_result, walkVars, otherThanAnalyze>>

\* if systemd: events.extend(systemd.get_events_of_interest())
AnalyzeCollectSystemd ==
    /\ an_status = "systemd"
    /\ an_events' = IF an_systemd.given
                    THEN an_events \o SystemdEventsOfInterest(an_systemd, su_units)
                    ELSE an_events
    /\ an_status' = "merge"
    /\ UNCHANGED <<an_journals, an_cloudinits, an_systemd, an_boot, an_event_types,
                   an_result, walkVars, otherThanAnalyze>>

\* the missing-logs event, the sort and the filter
AnalyzeMerge ==
    /\ an_status = "merge"
    /\ an_events' = FilterEventTypes(
                        SortedByMonotonic(
                            an_events \o MissingEvents(Selected(an_cloudinits))),
                        an_event_types)
    /\ an_status' = IF an_systemd.given THEN "units" ELSE "return"
    /\ UNCHANGED <<an_journals, an_cloudinits, an_systemd, an_boot, an_event_types,
                   an_result, walkVars, otherThanAnalyze>>

\* analyze_units(cloudinits=cloudinits, systemd=systemd) up to the walk of the units
AnalyzeCallUnits ==
    /\ an_status = "units"
    /\ LET selected == Selected(an_cloudinits)
           got == IF selected = <<>>
                  THEN [frames |-> <<>>, status |-> "returned"]
                  ELSE get_frames(selected[Len(selected)])
       IN  IF got.status # "returned"
           THEN an_status' = got.status /\ UNCHANGED wk_status
           ELSE IF got.frames # <<>>
           THEN an_status' = "AttributeError" /\ UNCHANGED wk_status
           ELSE an_status' = "walking" /\ wk_status' = "init"
    /\ UNCHANGED <<an_journals, an_cloudinits, an_systemd, an_boot, an_event_types,
                   an_events, an_result, su_units, wk_cfg, seen, wk_stack, units,
                   expanded, otherThanAnalyze>>

\* Unit.from_systemd_unit raised inside the walk
AnalyzeUnitsRaise ==
    /\ an_status = "walking"
    /\ wk_status = "ValueError"
    /\ an_status' = "ValueError"
    /\ UNCHANGED <<an_journals, an_cloudinits, an_systemd, an_boot, an_event_types,
                   an_events, an_result, walkVars, otherThanAnalyze>>

\* return EventData(events=event_dicts, warnings=warnings, units=json_units)
AnalyzeReturn ==
    /\ \/ an_status = "return"
       \/ an_status = "walking" /\ wk_status = "returned"
    /\ LET event_dicts == [k \in DOMAIN an_events |-> AsDict(an_events[k])]
       IN  an_result' = [events |-> event_dicts,
                         warnings |-> Warnings(event_dicts),
                         units |-> units]
    /\ an_status' = "returned"
    /\ UNCHANGED <<an_journals, an_cloudinits, an_systemd, an_boot, an_event_types,
                   an_events, walkVars, otherThanAnalyze>>

NextAnalyze ==
    \/ AnalyzeCollectJournals
    \/ AnalyzeCollectCloudinits
    \/ AnalyzeCollectSystemd
    \/ AnalyzeMerge
    \/ AnalyzeCallUnits
    \/ WalkStart
    \/ WalkSkip
    \/ WalkDescend
    \/ WalkFinishUnit
    \/ WalkReturn
    \/ AnalyzeUnitsRaise
    \/ AnalyzeReturn

SpecAnalyze == InitAnalyze /\ [][NextAnalyze]_vars

(***************************************************************************)
(* SSH.connect(), SSH.close() and SSH.connect_with_retries().  A field of  *)
(* the SSH object is None or "open", the paramiko object it holds.         *)
(***************************************************************************)
SshFields == [client |-> client, proxy_client |-> proxy_client,
              transport |-> transport, proxy_sock |-> proxy_sock]

\* the except clauses of connect_with_retries
CaughtExceptions ==
    {"AuthenticationException", "BadHostKeyException", "NoValidConnectionsError",
     "SSHException", "TimeoutError", "socket.error"}

\* what paramiko can make of one connect(): it succeeds, or a call raises.
\* proxy_client.connect and client.connect raise any of the exceptions,
\* get_transport returns None, open_channel raises an SSHException
ConnectOutcomes(host) ==
    {[at |-> "connected", exc |-> None]}
    \cup [at : {"client.connect"}, exc : CaughtExceptions]
    \cup (IF host = None THEN {}
          ELSE [at : {"proxy_client.connect"}, exc : CaughtExceptions]
               \cup {[at |-> "get_transport", exc |-> "RuntimeError"],
                     [at |-> "open_channel", exc |-> "SSHException"]})

\* connect(): the fields it has assigned when it returns or raises
connect(self, host, outcome) ==
    LET s1 == IF self.client = None THEN [self EXCEPT !.client = "open"] ELSE self
        s2 == IF host = None THEN s1 ELSE [s1 EXCEPT !.proxy_client = "open"]
        s3 == IF host # None /\ outcome.at \notin {"proxy_client.connect", "get_transport"}
              THEN [s2 EXCEPT !.transport = "open"] ELSE s2
        s4 == IF host # None /\ outcome.at \in {"client.connect", "connected"}
              THEN [s3 EXCEPT !.proxy_sock = "open"] ELSE s3
    IN  s4

\* close(): every field that is set is closed and set to None
close(self) ==
    [f \in DOMAIN self |-> IF self[f] # None THEN None ELSE self[f]]

SetSshFields(self) ==
    /\ client' = self.client
    /\ proxy_client' = self.proxy_client
    /\ transport' = self.transport
    /\ proxy_sock' = self.proxy_sock

Call(name, outcome) == [call |-> name, outcome |-> outcome]

sshOther == <<remote, ft_runs, ft_proc, ft_local, ft_status, lr_result, otherThanSsh>>

\* the remote file: the exit status of `cat` and of `sudo cat`, and its bytes
RemoteFiles == [plain : 0..MaxCode, sudo : 0..MaxCode, bytes : {"log-a", "log-b"}]

InitSsh ==
    /\ proxy_host \in {None, "proxy"}
    /\ client = None
    /\ proxy_client = None
    /\ transport = None
    /\ proxy_sock = None
    /\ attempts \in 0..MaxAttempts
    /\ ssh_trace = <<>>
    /\ ssh_status = "while"
    /\ remote \in RemoteFiles
    /\ ft_runs = <<>>
    /\ ft_proc = None
    /\ ft_local \in {None, "stale"}
    /\ ft_status = "idle"
    /\ lr_result = None
    /\ IdleFrames
    /\ IdleWalk
    /\ IdleJournal
    /\ IdleLoad
    /\ IdleAnalyze
    /\ IdleSystemd
    /\ IdleParse

\* while attempts > 0: attempts -= 1; self.connect(); return
SshConnectReturns ==
    /\ ssh_status = "while"
    /\ attempts > 0
    /\ LET outcome == [at |-> "connected", exc |-> None]
       IN  /\ SetSshFields(connect(SshFields, proxy_host, outcome))
           /\ ssh_trace' = Append(ssh_trace, Call("connect", outcome))
    /\ attempts' = attempts - 1
    /\ ssh_status' = "returned"
    /\ UNCHANGED <<proxy_host, sshOther>>

\* self.connect() raises an exception that an except clause names
SshConnectCaught ==
    /\ ssh_status = "while"
    /\ attempts > 0
    /\ \E outcome \in ConnectOutcomes(proxy_host) :
          /\ outcome.exc \in CaughtExceptions
          /\ SetSshFields(connect(SshFields, proxy_host, outcome))
          /\ ssh_trace' = Append(ssh_trace, Call("connect", outcome))
    /\ attempts' = attempts - 1
    /\ ssh_status' = "except"
    /\ UNCHANGED <<proxy_host, sshOther>>

\* self.connect() raises RuntimeError("unable to open transport"), which no
\* except clause names
SshConnectRaises ==
    /\ ssh_status = "while"
    /\ attempts > 0
    /\ \E outcome \in ConnectOutcomes(proxy_host) :
          /\ outcome.exc \notin CaughtExceptions \cup {None}
          /\ SetSshFields(connect(SshFields, proxy_host, outcome))
          /\ ssh_trace' = Append(ssh_trace, Call("connect", outcome))
          /\ ssh_status' = outcome.exc
    /\ attempts' = attempts - 1
    /\ UNCHANGED <<proxy_host, sshOther>>

\* self.close(); time.sleep(sleep)
SshCloseAndSleep ==
    /\ ssh_status = "except"
    /\ SetSshFields(close(SshFields))
    /\ ssh_trace' = Append(ssh_trace, Call("close", [at |-> None, exc |-> None]))
    /\ ssh_status' = "while"
    /\ UNCHANGED <<proxy_host, attempts, sshOther>>

\* the while condition is false: the function ends and returns None
SshLoopEnds ==
    /\ ssh_status = "while"
    /\ ~(attempts > 0)
    /\ ssh_status' = "returned"
    /\ UNCHANGED <<proxy_host, client, proxy_client, transport, proxy_sock, attempts,
                   ssh_trace, sshOther>>

(***************************************************************************)
(* SSH.fetch(remote_path, local_path) and CloudInit.load_remote(), called  *)
(* once connect_with_retries has returned.                                 *)
(***************************************************************************)
\* cmd = ["cat", str(remote_path)]
FetchCmd == <<"cat", "/var/log/cloud-init.log">>

\* the variant of the retry that runs the same command again
SudoCmd_Plain(cmd) == cmd

\* cmd.insert(0, "sudo")
SudoCmd(cmd) == <<"sudo">> \o cmd

\* what the remote side answers to a command
ReturnCode(cmd) == IF cmd[1] = "sudo" THEN remote.sudo ELSE remote.plain

\* run(cmd, capture_output=True, check=check): the CompletedProcess, or the
\* exception when check is set and the command failed
run(cmd, check) ==
    LET returncode == ReturnCode(cmd)
    IN  [cmd |-> cmd, check |-> check, returncode |-> returncode,
         stdout |-> IF returncode = 0 THEN remote.bytes ELSE "",
         raised |-> IF check /\ returncode # 0 THEN "CalledProcessError" ELSE None]

\* the variant of the test after the first run that never falls back
FetchFallsBack_Never(proc) == FALSE

\* if proc.returncode != 0:
FetchFallsBack(proc) == proc.returncode # 0

fetchOther == <<proxy_host, client, proxy_client, transport, proxy_sock, attempts,
                ssh_trace, ssh_status, remote, otherThanSsh>>

\* load_remote calls ssh.fetch; run() asserts self.client
FetchNotConnected ==
    /\ ssh_status = "returned"
    /\ ft_status = "idle"
    /\ client = None
    /\ ft_status' = "AssertionError"
    /\ UNCHANGED <<ft_runs, ft_proc, ft_local, lr_result, fetchOther>>

\* proc = self.run(cmd, capture_output=True, check=False)
FetchRunPlain ==
    /\ ssh_status = "returned"
    /\ ft_status = "idle"
    /\ client # None
    /\ LET proc == run(FetchCmd, FALSE)
       IN  /\ ft_runs' = Append(ft_runs, proc)
           /\ ft_proc' = proc
           /\ ft_status' = IF FetchFallsBack(proc) THEN "sudo" ELSE "write"
    /\ UNCHANGED <<ft_local, lr_result, fetchOther>>

\* proc = self.run(cmd, capture_output=True, check=True) under sudo;
\* except subprocess.CalledProcessError: raise FileNotFoundError
FetchRunSudo ==
    /\ ft_status = "sudo"
    /\ LET proc == run(SudoCmd(ft_proc.cmd), TRUE)
       IN  /\ ft_runs' = Append(ft_runs, proc)
           /\ ft_proc' = IF proc.raised = None THEN proc ELSE ft_proc
           /\ ft_status' = IF proc.raised = None THEN "write" ELSE "FileNotFoundError"
    /\ UNCHANGED <<ft_local, lr_result, fetchOther>>

\* local_path.write_bytes(proc.stdout)
FetchWrite ==
    /\ ft_status = "write"
    /\ ft_local' = ft_proc.stdout
    /\ ft_status' = "returned"
    /\ UNCHANGED <<ft_runs, ft_proc, lr_result, fetchOther>>

\* except FileNotFoundError: return []
LoadRemoteReturnsEmpty ==
    /\ ft_status = "FileNotFoundError"
    /\ lr_result = None
    /\ lr_result' = "[]"
    /\ UNCHANGED <<ft_runs, ft_proc, ft_local, ft_status, fetchOther>>

\* return cls.load(local_path, output_dir=output_dir)
LoadRemoteLoads ==
    /\ ft_status = "returned"
    /\ lr_result = None
    /\ lr_result' = "load(local_path)"
    /\ UNCHANGED <<ft_runs, ft_proc, ft_local, ft_status, fetchOther>>

NextSsh ==
    \/ SshConnectReturns
    \/ SshConnectCaught
    \/ SshConnectRaises
    \/ SshCloseAndSleep
    \/ SshLoopEnds
    \/ FetchNotConnected
    \/ FetchRunPlain
    \/ FetchRunSudo
    \/ FetchWrite
    \/ LoadRemoteReturnsEmpty
    \/ LoadRemoteLoads

SpecSsh == InitSsh /\ [][NextSsh]_vars

SpecSshFair == SpecSsh /\ WF_vars(NextSsh)


(***************************************************************************)
(* Vocabulary of the claims about get_frames(): the start entries that are *)
(* open after the first k entries under the LIFO discipline (a start       *)
(* opens, a finish closes the most recently opened start that is still     *)
(* open, a finish with nothing open is ignored).                           *)
(***************************************************************************)
RECURSIVE OpenStarts(_, _)
OpenStarts(entries, k) ==
    IF k = 0 THEN <<>>
    ELSE LET prev == OpenStarts(entries, k - 1)
         IN  CASE entries[k].event_type = "start" -> Append(prev, k)
               [] entries[k].event_type = "finish" /\ prev # <<>>
                     -> SubSeq(prev, 1, Len(prev) - 1)
               [] OTHER -> prev

SameKey(a, b) == a.stage = b.stage /\ a.module = b.module

\* the finish entry j closes the start entry i, and both name the same (stage, module)
ClosedBy(entries, i, j) ==
    /\ entries[j].event_type = "finish"
    /\ OpenStarts(entries, j - 1) # <<>>
    /\ StackTop(OpenStarts(entries, j - 1)) = i
    /\ SameKey(entries[i], entries[j])

\* the finish entry j arrives while the innermost open start names another (stage, module)
Mismatched(entries, j) ==
    /\ entries[j].event_type = "finish"
    /\ OpenStarts(entries, j - 1) # <<>>
    /\ ~ SameKey(entries[StackTop(OpenStarts(entries, j - 1))], entries[j])

OrphanFinish(entries, j) ==
    /\ entries[j].event_type = "finish"
    /\ OpenStarts(entries, j - 1) = <<>>

WellFormed(entries) == \A j \in DOMAIN entries : ~ Mismatched(entries, j)

\* C1: when get_frames() has ended on a boot without mismatched finish
\* entries, it has returned, and for every start entry i closed by a finish
\* entry j of the same (stage, module) the returned list holds a frame for
\* that pair with duration = monotonic(j) - monotonic(i), the timestamps of
\* the two entries and the result of the finish entry.
C1_ClosedPairYieldsFrame ==
    (gf_status # "running" /\ WellFormed(gf_entries)) =>
        \A i, j \in DOMAIN gf_entries :
            ClosedBy(gf_entries, i, j) =>
                /\ gf_status = "returned"
                /\ \E k \in DOMAIN frames :
                      /\ frames[k].stage = gf_entries[i].stage
                      /\ frames[k].module = gf_entries[i].module
                      /\ frames[k].duration = gf_entries[j].timestamp_monotonic
                                                 - gf_entries[i].timestamp_monotonic
                      /\ frames[k].timestamp_monotonic_start = gf_entries[i].timestamp_monotonic
                      /\ frames[k].timestamp_monotonic_finish = gf_entries[j].timestamp_monotonic
                      /\ frames[k].timestamp_realtime_start = gf_entries[i].timestamp_realtime
                      /\ frames[k].timestamp_realtime_finish = gf_entries[j].timestamp_realtime
                      /\ frames[k].result = gf_entries[j].result

\* C2: when get_frames() has ended on a boot that holds a finish entry whose
\* (stage, module) differs from the innermost open frame, it ended by raising
\* the mismatch error (the failed assert on stage and module).
C2_MismatchRaises ==
    (gf_status # "running" /\ \E j \in DOMAIN gf_entries : Mismatched(gf_entries, j))
        => gf_status = "AssertionError"

\* C3: a finish entry met while the stack of open frames is empty raises
\* nothing: the stack and the list of frames are unchanged and the loop goes
\* on with the next entry.
C3_OrphanFinishIgnored ==
    [][ ( /\ gf_status = "running"
          /\ gf_i < Len(gf_entries)
          /\ gf_entries[gf_i + 1].event_type = "finish"
          /\ stack = <<>> )
        => ( /\ stack' = stack
             /\ frames' = frames
             /\ gf_status' = "running"
             /\ gf_i' = gf_i + 1 ) ]_vars

\* an orphan finish was consumed, the entries after it too, and get_frames() returned
C3_Witness ==
    /\ gf_status = "returned"
    /\ \E j \in DOMAIN gf_entries :
          /\ OrphanFinish(gf_entries, j)
          /\ j < Len(gf_entries)
          /\ gf_i = Len(gf_entries)

(***************************************************************************)
(* Claims about the unit walk.                                             *)
(***************************************************************************)
\* how many times d is listed as a dependency of u
EdgeCount(u, d) ==
    IF u \notin DOMAIN units THEN 0
    ELSE Cardinality({k \in DOMAIN units[u].dependencies : units[u].dependencies[k] = d})

WalkEnded == wk_status \in {"returned", "ValueError"}

\* A after B, B after C, C after A, and no unit is rejected by a filter
CycleSnapshot ==
    /\ DOMAIN su_units = Names
    /\ su_units["A"].after = {"B"}
    /\ su_units["B"].after = {"C"}
    /\ su_units["C"].after = {"A"}
    /\ \A n \in Names : ~ WalkRejects(n)

CycleEdges == {<<"A", "B">>, <<"B", "C">>, <<"C", "A">>}

ExpandedAtMostOnce == \A n \in Names : expanded[n] <= 1

CycleYieldsItsEdges ==
    (wk_status = "returned" /\ CycleSnapshot) =>
        \A u, d \in Names :
            EdgeCount(u, d) = IF <<u, d>> \in CycleEdges THEN 1 ELSE 0

\* C4: on every snapshot the walk ends (returns or raises), no name is
\* expanded more than once, and on the cycle A after B after C after A it
\* returns the edges (A,B), (B,C), (C,A), each exactly once.
C4_WalkTerminatesOnCycles ==
    /\ <>WalkEnded
    /\ []ExpandedAtMostOnce
    /\ []CycleYieldsItsEdges

\* the walk of the cycle has returned with its three edges
C4_Witness ==
    /\ wk_status = "returned"
    /\ CycleSnapshot
    /\ \A e \in CycleEdges : EdgeCount(e[1], e[2]) = 1
    /\ \A n \in Names : expanded[n] = 1

(***************************************************************************)
(* Claims about the journal.                                               *)
(***************************************************************************)
RECURSIVE Flatten(_)
Flatten(boots) ==
    IF boots = <<>> THEN <<>> ELSE Head(boots) \o Flatten(Tail(boots))

KernelLines(entries) == {k \in DOMAIN entries : StartsWithLinuxVersion(entries[k].message)}

\* exactly two entries start with "Linux version", and other entries lie between them
TwoKernelLines(entries) ==
    /\ Cardinality(KernelLines(entries)) = 2
    /\ \A a, b \in KernelLines(entries) : a < b => b > a + 1

\* the boots are the consecutive runs of the stream, none empty, and each
\* boot after the first begins with a "Linux version" entry
BootsAreRuns ==
    /\ Flatten(journals) = j_entries
    /\ \A b \in DOMAIN journals :
          /\ journals[b] # <<>>
          /\ b > 1 => StartsWithLinuxVersion(journals[b][1].message)

\* C6 as stated: two "Linux version" entries separated by other entries give
\* exactly two boots.
C6_Original ==
    (j_status = "returned" /\ TwoKernelLines(j_entries)) =>
        /\ Len(journals) = 2
        /\ BootsAreRuns

\* C6 amended: such a stream gives two boots when it begins with the first
\* "Linux version" entry and three when other entries precede it; the boots
\* are the consecutive runs of the stream in original order; a boot is
\* closed only at a "Linux version" entry met with a non-empty buffer.
C6_TwoKernelLines ==
    /\ []( (j_status = "returned" /\ TwoKernelLines(j_entries)) =>
             /\ Len(journals) = IF StartsWithLinuxVersion(j_entries[1].message)
                                THEN 2 ELSE 3
             /\ BootsAreRuns )
    /\ [][ (j_status = "segmenting" /\ j_status' = "segmenting" /\ journals' # journals)
             => /\ StartsWithLinuxVersion(j_entries[j_i + 1].message)
                /\ j_boot_entries # <<>>
                /\ journals' = Append(journals, j_boot_entries)
                /\ j_boot_entries' = <<j_entries[j_i + 1]>> ]_vars

\* a stream with entries before the first of two kernel lines has given three boots
C6_Witness ==
    /\ j_status = "returned"
    /\ TwoKernelLines(j_entries)
    /\ ~ StartsWithLinuxVersion(j_entries[1].message)
    /\ Len(journals) = 3

EventsLabelled(events, label) == SelectSeq(events, LAMBDA e : e.label = label)

\* the events with this label are those of the first entry matching the pattern, if any
FirstMatchOnly(entries, events, pattern, label) ==
    LET found == JournalFindEntries(entries, pattern)
        got   == EventsLabelled(events, label)
    IN  /\ Len(got) <= 1
        /\ found # <<>> =>
              /\ Len(got) = 1
              /\ got[1].timestamp_realtime = found[1].timestamp_realtime
              /\ got[1].message = found[1].message
              /\ got[1].severity = "info"

\* C9: the events of a journal boot hold at most one KERNEL_BOOT and at most
\* one SSH_ACCEPTED_CONNECTION, each taken from the first matching entry, and
\* exactly one of each, of severity info, when the boot has a matching line.
C9_FirstKernelAndSshOnly ==
    \A b \in DOMAIN j_events :
        /\ FirstMatchOnly(journals[b], j_events[b], "Linux version", "KERNEL_BOOT")
        /\ FirstMatchOnly(journals[b], j_events[b], "Accepted publickey",
                          "SSH_ACCEPTED_CONNECTION")

\* a classified boot with two kernel lines and two accepted connections
C9_Witness ==
    \E b \in DOMAIN j_events :
        /\ Len(JournalFindEntries(journals[b], "Linux version")) >= 2
        /\ Len(JournalFindEntries(journals[b], "Accepted publickey")) >= 2
        /\ Len(EventsLabelled(j_events[b], "KERNEL_BOOT")) = 1
        /\ Len(EventsLabelled(j_events[b], "SSH_ACCEPTED_CONNECTION")) = 1

(***************************************************************************)
(* Vocabulary of the claims about CloudInit.load().                        *)
(***************************************************************************)
BoundarySeen ==
    /\ ci_status = "running"
    /\ ci_i < Len(ci_lines)
    /\ ci_lines[ci_i + 1].parses
    /\ is_start_of_boot_record(ci_lines[ci_i + 1].message)

BootOpener(b) == ci_entries[cloudinits[b].entries[1]]

BootsBeginWithBoundary ==
    ci_status = "returned" =>
        \A b \in DOMAIN cloudinits :
            b > 1 => is_start_of_boot_record(BootOpener(b).message)

\* C7: in CloudInit.load() an init-local entry seen while the boot buffer is
\* non-empty closes the current boot and becomes the first entry of the next
\* one, the first entry of the log never splits, and so every returned boot
\* after the first begins with its own init-local boundary entry.
C7_BoundaryOpensNextBoot ==
    /\ [][BoundarySeen =>
            IF boot_entries # <<>>
            THEN /\ Len(cloudinits') = Len(cloudinits) + 1
                 /\ cloudinits'[Len(cloudinits')].entries = boot_entries
                 /\ boot_entries' = <<ci_i + 1>>
            ELSE /\ cloudinits' = cloudinits
                 /\ boot_entries' = <<ci_i + 1>>]_vars
    /\ []BootsBeginWithBoundary

\* the monotonic time of line e was unset when line h was read: no uptime hint
\* had been parsed before h, and e is not a hint itself
WasUnsetAt(e, h) ==
    /\ e < h
    /\ \A k \in 1..(h - 1) : ci_lines[k].parses => ~ HasUptime(ci_lines[k].message)

\* C8: after CloudInit.load(), for an uptime hint at realtime T claiming U of
\* uptime, every entry e of the same boot that precedes the hint and whose
\* monotonic was unset has timestamp_monotonic = realtime(e) - (T - U), in
\* every boot of the log, the last or only one included.
C8_UnsetEntriesResolved ==
    ci_status = "returned" =>
        \A b \in DOMAIN cloudinits :
            \A p, q \in DOMAIN cloudinits[b].entries :
                LET ids == cloudinits[b].entries
                    e == ci_entries[ids[p]]
                    h == ci_entries[ids[q]]
                IN  (HasUptime(h.message) /\ WasUnsetAt(ids[p], ids[q])) =>
                        e.timestamp_monotonic =
                            e.timestamp_realtime
                                - (h.timestamp_realtime - Uptime(h.message))

(***************************************************************************)
(* Vocabulary of the claims about analyze_events().                        *)
(***************************************************************************)
AnalyzeReturned == an_status = "returned"

AnalyzeFailed == an_status \in AnalyzeExceptions

\* C5: in the events list returned by analyze_events, of two events with
\* distinct monotonic timestamps the one with the smaller timestamp comes
\* first, whichever source produced each and whatever the order of collection.
C5_EventsOrderedByMonotonic ==
    AnalyzeReturned =>
        \A i, j \in DOMAIN an_result.events :
            an_result.events[i].timestamp_monotonic
                < an_result.events[j].timestamp_monotonic => i < j

\* a returned list in which an event of systemd, collected last, stands before
\* an event of the journal, collected first, and a third source is present
C5_Witness ==
    /\ AnalyzeReturned
    /\ \E i, j, k \in DOMAIN an_result.events :
          /\ i < j
          /\ an_result.events[i].source = "systemd"
          /\ an_result.events[j].source = "journal"
          /\ an_result.events[i].timestamp_monotonic
                < an_result.events[j].timestamp_monotonic
          /\ an_result.events[k].source = "analyze"

MissingIn(event_dicts) ==
    SelectSeq(event_dicts, LAMBDA d : d.label = "CLOUDINIT_LOGS_MISSING")

OneMissingWarning(event_dicts) ==
    /\ Len(MissingIn(event_dicts)) = 1
    /\ "severity" \in DOMAIN MissingIn(event_dicts)[1]
    /\ MissingIn(event_dicts)[1].severity = "warning"

NoMissingWhenPresent ==
    (an_cloudinits # <<>> /\ AnalyzeReturned) =>
        /\ MissingIn(an_result.events) = <<>>
        /\ MissingIn(an_result.warnings) = <<>>

RootUnitUntimed ==
    /\ an_systemd.given
    /\ DefaultWalkConfig.service_name \in DOMAIN su_units
    /\ from_systemd_unit_raises(su_units[DefaultWalkConfig.service_name])

MissingPassesFilter ==
    an_event_types = {} \/ "CLOUDINIT_LOGS_MISSING" \in an_event_types

IsWarningDict(d) == "severity" \in DOMAIN d /\ d.severity = "warning"

\* C11: in every result of analyze_events, warnings is exactly the subsequence
\* of events whose severity is warning, in the same relative order.
C11_WarningsAreTheWarningEvents ==
    AnalyzeReturned =>
        /\ Len(an_result.events) = Len(an_events)
        /\ \A k \in DOMAIN an_events :
              IsWarningDict(an_result.events[k]) <=> an_events[k].severity = "warning"
        /\ an_result.warnings = SelectSeq(an_result.events, IsWarningDict)

\* a result with two warnings of different sources and an info event between
C11_Witness ==
    /\ AnalyzeReturned
    /\ Len(an_result.warnings) >= 2
    /\ an_result.warnings[1].source # an_result.warnings[2].source
    /\ \E i, j, k \in DOMAIN an_result.events :
          /\ i < j /\ j < k
          /\ IsWarningDict(an_result.events[i])
          /\ ~ IsWarningDict(an_result.events[j])
          /\ IsWarningDict(an_result.events[k])

SelectedBootMismatched ==
    \E b \in DOMAIN Selected(an_cloudinits) :
        \E j \in DOMAIN Selected(an_cloudinits)[b] :
            Mismatched(Selected(an_cloudinits)[b], j)

\* C12: a start/finish mismatch in a cloud-init boot is fatal only to that
\* boot's frame reconstruction: no exception propagates out of analyze_events,
\* which returns the events of the boot's flat entries, of the journal and of
\* systemd.
C12_MismatchDoesNotPropagate ==
    SelectedBootMismatched =>
        /\ ~ AnalyzeFailed
        /\ AnalyzeReturned =>
              Len(an_result.events)
                  >= Len(JournalsEvents(Selected(an_journals)))
                       + Len(CloudInitAsEventCalls(
                                Selected(an_cloudinits)[Len(Selected(an_cloudinits))]))

\* the entries of the well-formed records, in the order of the stream
WellFormedEntries ==
    LET good == SelectSeq(j_logs, LAMBDA raw : raw.fault = None)
    IN  [k \in DOMAIN good |-> JournalEntryParse(good[k])]

\* C13: a raw record that does not match its parser's grammar is skipped and
\* does not abort the batch: Journal.parse_json still returns the entries of
\* all the well-formed records before and after it, in their original order.
C13_BadRecordSkipped ==
    /\ j_status \notin JournalFaults
    /\ j_status = "returned" => Flatten(journals) = WellFormedEntries

(***************************************************************************)
(* Claims about the filters of the unit walk.                              *)
(***************************************************************************)
\* d is in the exclude list, or fails an enabled optional filter
RejectedByThreeFilters(d) ==
    \/ d \in wk_cfg.filter_services
    \/ wk_cfg.filter_conditional_result_no /\ ~ su_units[d].condition_result
    \/ wk_cfg.filter_inactive /\ su_units[d].active_enter_timestamp_monotonic = 0

\* this step takes d from the After-set of the unit being expanded
WalkConsumes(d) ==
    /\ wk_status = "running"
    /\ wk_stack # <<>>
    /\ d \in wk_stack[Len(wk_stack)].todo
    /\ Len(wk_stack') >= Len(wk_stack)
    /\ d \notin wk_stack'[Len(wk_stack)].todo

\* the step added d as a dependency of that unit and called the walk on d
WalkFollowed(d) ==
    /\ wk_stack'[Len(wk_stack)].unit_deps = wk_stack[Len(wk_stack)].unit_deps \cup {d}
    /\ d \in seen'

WalkPassedOver(d) ==
    /\ wk_stack'[Len(wk_stack)].unit_deps = wk_stack[Len(wk_stack)].unit_deps
    /\ seen' = seen
    /\ Len(wk_stack') = Len(wk_stack)

NoOptionalFilter ==
    /\ wk_cfg.filter_services = {}
    /\ ~ wk_cfg.filter_conditional_result_no
    /\ ~ wk_cfg.filter_inactive

\* C14 as stated: a name of the After-set is added and recursed into exactly
\* when it is in the snapshot and passes the three filters; a name outside the
\* snapshot is skipped; without filters every After-dependency of the snapshot
\* yields an edge.
C14_Original ==
    /\ [][ \A d \in Names : WalkConsumes(d) =>
              IF d \in DOMAIN su_units /\ ~ RejectedByThreeFilters(d)
              THEN WalkFollowed(d)
              ELSE WalkPassedOver(d) ]_vars
    /\ []( (wk_status = "returned" /\ NoOptionalFilter) =>
              \A u \in DOMAIN units : \A d \in su_units[u].after \cap DOMAIN su_units :
                  EdgeCount(u, d) = 1 )

\* C14: a name of the After-set is added and recursed into exactly when it is
\* in the snapshot, its active state is not "inactive", and it passes the
\* three filters (exclude list; ConditionResult false with that filter on; no
\* active-enter monotonic timestamp with that filter on); any other name is
\* passed over without error.  Without filters every After-dependency of the
\* snapshot that is not inactive yields an edge, and no other does.
C14_FourFilters ==
    /\ [][ \A d \in Names : WalkConsumes(d) =>
              IF /\ d \in DOMAIN su_units
                 /\ is_active(su_units[d])
                 /\ ~ RejectedByThreeFilters(d)
              THEN WalkFollowed(d)
              ELSE WalkPassedOver(d) ]_vars
    /\ []( (wk_status = "returned" /\ NoOptionalFilter) =>
              \A u \in DOMAIN units : \A d \in su_units[u].after :
                  EdgeCount(u, d) =
                      IF d \in DOMAIN su_units /\ is_active(su_units[d]) THEN 1 ELSE 0 )

\* a walk without filters has returned; the root lists the active dependency
\* of its After-set and not the inactive one
C14_Witness ==
    /\ wk_status = "returned"
    /\ NoOptionalFilter
    /\ wk_cfg.service_name \in DOMAIN units
    /\ \E d, e \in su_units[wk_cfg.service_name].after :
          /\ d \in DOMAIN su_units /\ ~ is_active(su_units[d])
          /\ EdgeCount(wk_cfg.service_name, d) = 0
          /\ e \in DOMAIN su_units /\ EdgeCount(wk_cfg.service_name, e) = 1

(***************************************************************************)
(* Claims about the activation times of systemd units.                     *)
(***************************************************************************)
Recorded(t) == t # 0

\* the first applicable difference of the chain, as the claim lists it
ChainApplies(u) ==
    \/ Recorded(u.active_enter_timestamp_monotonic)
          /\ Recorded(u.inactive_exit_timestamp_monotonic)
    \/ Recorded(u.exec_main_exit_timestamp_monotonic)
          /\ Recorded(u.exec_main_start_timestamp_monotonic)
    \/ Recorded(u.inactive_exit_timestamp_monotonic)
          /\ Recorded(u.inactive_enter_timestamp_monotonic)

ChainValue(u) ==
    CASE Recorded(u.active_enter_timestamp_monotonic)
            /\ Recorded(u.inactive_exit_timestamp_monotonic)
         -> u.active_enter_timestamp_monotonic - u.inactive_exit_timestamp_monotonic
      [] OTHER ->
         CASE Recorded(u.exec_main_exit_timestamp_monotonic)
                 /\ Recorded(u.exec_main_start_timestamp_monotonic)
              -> u.exec_main_exit_timestamp_monotonic
                    - u.exec_main_start_timestamp_monotonic
           [] OTHER -> u.inactive_exit_timestamp_monotonic
                          - u.inactive_enter_timestamp_monotonic

UnitEvents(name) ==
    SelectSeq(sd_events, LAMBDA e : e.label = "SYSTEMD_UNIT" /\ e.unit = name)

\* C15: a unit's time to activate is the first applicable of active_enter -
\* inactive_exit, exec_main_exit - exec_main_start, inactive_exit -
\* inactive_enter; a unit for which none applies is omitted from the events
\* of Systemd.get_events_of_interest without raising, and every viable unit
\* yields exactly one SYSTEMD_UNIT event.
C15_TimeToActivateChain ==
    /\ sd_status \in {"idle", "running", "returned"}
    /\ sd_status = "returned" =>
          \A name \in DOMAIN sd_units :
              /\ get_time_to_activate(sd_units[name]).raises
                    <=> ~ ChainApplies(sd_units[name])
              /\ ~ ChainApplies(sd_units[name]) =>
                    /\ ~ is_viable_event(sd_units[name])
                    /\ UnitEvents(name) = <<>>
              /\ is_viable_event(sd_units[name]) =>
                    /\ Len(UnitEvents(name)) = 1
                    /\ UnitEvents(name)[1].time_to_activate = ChainValue(sd_units[name])

\* the events were returned for a unit timed by its ExecMain pair alone, beside
\* a unit that no pair of the chain times
C15_Witness ==
    /\ sd_status = "returned"
    /\ \E a, b \in DOMAIN sd_units :
          /\ ~ ChainApplies(sd_units[b])
          /\ UnitEvents(b) = <<>>
          /\ ~ Recorded(sd_units[a].active_enter_timestamp_monotonic)
          /\ Recorded(sd_units[a].inactive_exit_timestamp_monotonic)
          /\ Recorded(sd_units[a].inactive_enter_timestamp_monotonic)
          /\ Recorded(sd_units[a].exec_main_exit_timestamp_monotonic)
          /\ Recorded(sd_units[a].exec_main_start_timestamp_monotonic)
          /\ Len(UnitEvents(a)) = 1
          /\ UnitEvents(a)[1].time_to_activate
                = sd_units[a].exec_main_exit_timestamp_monotonic
                     - sd_units[a].exec_main_start_timestamp_monotonic
          /\ UnitEvents(a)[1].time_to_activate
                # sd_units[a].inactive_exit_timestamp_monotonic
                     - sd_units[a].inactive_enter_timestamp_monotonic

(***************************************************************************)
(* Further claims about get_frames(): the frames left open and the tree of *)
(* frames.                                                                 *)
(***************************************************************************)
\* the start entries that no finish entry of the boot closes
LeftOpen(entries) ==
    {OpenStarts(entries, Len(entries))[n] : n \in DOMAIN OpenStarts(entries, Len(entries))}

\* C16: when get_frames() has ended on a boot without mismatched finish
\* entries, it has returned without error, and for every start entry that no
\* finish entry closes before the entries end the returned list holds a
\* frame of that entry whose result is the sentinel "INCOMPLETE".
C16_OpenFrameReturnedIncomplete ==
    (gf_status # "running" /\ WellFormed(gf_entries)) =>
        \A i \in LeftOpen(gf_entries) :
            /\ gf_status = "returned"
            /\ \E k \in DOMAIN frames :
                  /\ frames[k].stage = gf_entries[i].stage
                  /\ frames[k].module = gf_entries[i].module
                  /\ frames[k].timestamp_realtime_start = gf_entries[i].timestamp_realtime
                  /\ frames[k].result = "INCOMPLETE"
                  /\ frames[k].result \notin Results

\* p is an ancestor of f in at most MaxEntries steps along parent
RECURSIVE AncestorWithin(_, _, _)
AncestorWithin(f, p, n) ==
    /\ n > 0
    /\ frames[f].parent # 0
    /\ \/ frames[f].parent = p
       \/ AncestorWithin(frames[f].parent, p, n - 1)

FramesAreATree ==
    /\ \A f, p \in DOMAIN frames : frames[f].parent = p <=> f \in frames[p].children
    /\ \A f \in DOMAIN frames : ~ AncestorWithin(f, f, Len(frames))
    /\ \A f \in DOMAIN frames :
          (frames[f].parent # 0 /\ frames[f].result # "INCOMPLETE")
             => frames[frames[f].parent].timestamp_realtime_finish
                   >= frames[f].timestamp_realtime_finish
                \/ frames[frames[f].parent].result = "INCOMPLETE"

\* C20: each start entry that get_frames() consumes creates exactly one
\* frame, whose parent is the frame on top of the stack of open frames (none
\* when the stack is empty), adds it to the children of that parent and
\* pushes it; and at every moment f.parent is p exactly when f is among
\* p.children, no frame is its own ancestor, and a frame opened inside
\* another is closed no later than it.
C20_StartOpensChildOfStackTop ==
    /\ [] FramesAreATree
    /\ [][ ( /\ gf_status = "running"
             /\ gf_i < Len(gf_entries)
             /\ gf_entries[gf_i + 1].event_type = "start" )
           => ( /\ gf_status' = "running"
                /\ Len(frames') = Len(frames) + 1
                /\ frames'[Len(frames')].parent = StackTop(stack)
                /\ stack # <<>> => Len(frames') \in frames'[StackTop(stack)].children
                /\ stack' = Append(stack, Len(frames')) ) ]_vars

(***************************************************************************)
(* Claims about the warnings that cloud-init entries produce.              *)
(***************************************************************************)
\* the entry's message contains ERROR, CRITICAL or Traceback, or it is a
\* finish entry with a result other than SUCCESS
WarningEntry(e) ==
    \/ CloudInitMatches("ERROR", e.message)
    \/ CloudInitMatches("CRITICAL", e.message)
    \/ CloudInitMatches("Traceback", e.message)
    \/ e.result \notin {None, "SUCCESS"}

SelectedWarningEntries ==
    UNION { {Selected(an_cloudinits)[b][k] : k \in DOMAIN Selected(an_cloudinits)[b]}
            : b \in DOMAIN Selected(an_cloudinits) }

\* C17: when analyze_events has ended, without a filter on event types, on
\* cloud-init boots that hold an entry whose message contains ERROR, CRITICAL
\* or Traceback, or whose finish result is not SUCCESS, it has returned and
\* the warnings list holds an event of severity warning made from that entry.
C17_BadEntriesBecomeWarnings ==
    \A e \in SelectedWarningEntries :
        (WarningEntry(e) /\ an_event_types = {} /\ (AnalyzeReturned \/ AnalyzeFailed)) =>
            /\ AnalyzeReturned
            /\ \E w \in DOMAIN an_result.warnings :
                  /\ an_result.warnings[w].source = "cloudinit"
                  /\ an_result.warnings[w].severity = "warning"
                  /\ an_result.warnings[w].message = e.message

(***************************************************************************)
(* Claims about CloudInitEntry.parse.                                      *)
(***************************************************************************)
ParseEnded == pe_status \notin {"idle", "matching", "classifying", "building"}

\* the line is `<timestamp> - <python-module>[<LEVEL>]: <body>`
HasLinePrefix ==
    /\ Len(pe_log_line) >= Len(LinePrefix)
    /\ SubSeq(pe_log_line, 1, Len(LinePrefix)) = LinePrefix

LineBody == SubSeq(pe_log_line, Len(LinePrefix) + 1, Len(pe_log_line))

\* the body is `finish: <module>: <result>: <message>`
FinishShape(b) ==
    /\ Len(b) >= 6
    /\ b[1] = "finish" /\ b[2] = CS
    /\ b[3] \in ModuleWords /\ b[4] = CS
    /\ b[5] \in ResultWords /\ b[6] = CS

\* the body is `start: <module>: <message>`
StartShape(b) ==
    /\ Len(b) >= 4
    /\ b[1] = "start" /\ b[2] = CS
    /\ b[3] \in ModuleWords /\ b[4] = CS

PlainBody(b) == ~ StartsWith(b, "start") /\ ~ StartsWith(b, "finish")

\* C18: CloudInitEntry.parse of `<timestamp> - <python-module>[<LEVEL>]: <body>`
\* returns an entry that is a finish, a start or a log by the prefix of the
\* body, whose message is everything after the result of a finish body and
\* after the module of a start body, and the whole body of a plain one, with
\* module and result unset, whatever ": " the message holds.
C18_ParseKeepsMessageWhole ==
    (ParseEnded /\ HasLinePrefix) =>
        /\ FinishShape(LineBody) =>
              /\ pe_status = "returned"
              /\ pe_entry.event_type = "finish"
              /\ pe_entry.result = Text(<<LineBody[5]>>)
              /\ pe_entry.message = SubSeq(LineBody, 7, Len(LineBody))
        /\ StartShape(LineBody) =>
              /\ pe_status = "returned"
              /\ pe_entry.event_type = "start"
              /\ pe_entry.result = Unset
              /\ pe_entry.message = SubSeq(LineBody, 5, Len(LineBody))
        /\ PlainBody(LineBody) =>
              /\ pe_status = "returned"
              /\ pe_entry.event_type = "log"
              /\ pe_entry.module = Unset
              /\ pe_entry.result = Unset
              /\ pe_entry.message = LineBody

(***************************************************************************)
(* Claims about the monotonic time of an entry with an uptime hint.        *)
(***************************************************************************)
\* C19: an entry of a line whose message holds the hint `Up <U> seconds` has
\* timestamp_monotonic = U, when the line is parsed alone and when load()
\* has parsed it under the reference of an earlier hint; an entry without a
\* hint parsed with no reference has timestamp_monotonic 0.0.
C19_HintGivesItsUptime ==
    /\ \A k \in DOMAIN ci_lines :
          ci_lines[k].parses =>
             CloudInitEntryParse(ci_lines[k], NoTime).timestamp_monotonic
                = IF HasUptime(ci_lines[k].message)
                  THEN Uptime(ci_lines[k].message)
                  ELSE 0
    /\ \A k \in DOMAIN ci_entries :
          HasUptime(ci_lines[k].message) =>
             ci_entries[k].timestamp_monotonic = Uptime(ci_lines[k].message)

\* load() has parsed a second hint under the reference of the first, which
\* alone would have estimated another monotonic time than the hint gives
C19_Witness ==
    /\ {1, 2} \subseteq DOMAIN ci_entries
    /\ HasUptime(ci_lines[1].message)
    /\ HasUptime(ci_lines[2].message)
    /\ LET first == calculate_reference_timestamp(ci_entries[1].timestamp_realtime,
                                                  Uptime(ci_lines[1].message))
       IN  /\ ci_entries[2].timestamp_realtime - first # Uptime(ci_lines[2].message)
           /\ ci_entries[2].timestamp_monotonic = Uptime(ci_lines[2].message)
    /\ \E k \in DOMAIN ci_entries :
          /\ ~ HasUptime(ci_lines[k].message)
          /\ CloudInitEntryParse(ci_lines[k], NoTime).timestamp_monotonic = 0

(***************************************************************************)
(* Claims about the entries that CloudInit.load() leaves.                  *)
(***************************************************************************)
\* the parsed line before line k, 0 when k is the first
PreviousParsed(k) ==
    IF \E j \in DOMAIN ci_entries : j < k
    THEN Max({j \in DOMAIN ci_entries : j < k})
    ELSE 0

Nudged(k) ==
    /\ PreviousParsed(k) # 0
    /\ ci_lines[k].ts <= ci_entries[PreviousParsed(k)].timestamp_realtime

\* C21: the realtime timestamps of the entries that CloudInit.load() has
\* parsed are strictly increasing in log order, in the log and in each boot
\* returned: an entry whose raw timestamp is not later than the corrected
\* timestamp of the entry before it is at that timestamp plus one
\* microsecond, and any other entry keeps its raw timestamp.
C21_RealtimeStrictlyIncreasing ==
    /\ \A k \in DOMAIN ci_entries :
          /\ PreviousParsed(k) # 0 =>
                ci_entries[k].timestamp_realtime
                    > ci_entries[PreviousParsed(k)].timestamp_realtime
          /\ ci_entries[k].timestamp_realtime
                = IF Nudged(k)
                  THEN ci_entries[PreviousParsed(k)].timestamp_realtime + 1
                  ELSE ci_lines[k].ts
    /\ \A b \in DOMAIN cloudinits :
          \A p, q \in DOMAIN cloudinits[b].entries :
              p < q => ci_entries[cloudinits[b].entries[p]].timestamp_realtime
                          < ci_entries[cloudinits[b].entries[q]].timestamp_realtime

\* load() has returned a log with an entry whose raw timestamp is later than
\* the raw timestamp of the entry before it, but not later than its corrected
\* timestamp, and which was nudged for that
C21_Witness ==
    /\ ci_status = "returned"
    /\ \E j, k \in DOMAIN ci_entries :
          /\ j = PreviousParsed(k)
          /\ Nudged(j) /\ Nudged(k)
          /\ ci_lines[k].ts > ci_lines[j].ts
          /\ ci_entries[k].timestamp_realtime = ci_entries[j].timestamp_realtime + 1

(***************************************************************************)
(* Claims about the order of events of equal monotonic time.               *)
(***************************************************************************)
\* the events in the order analyze_events collected them, less the ones the
\* filter on event types removes
EmissionOrder ==
    FilterEventTypes(
        JournalsEvents(Selected(an_journals))
            \o CloudinitsEvents(Selected(an_cloudinits)).events
            \o (IF an_systemd.given
                THEN SystemdEventsOfInterest(an_systemd, su_units)
                ELSE <<>>)
            \o MissingEvents(Selected(an_cloudinits)),
        an_event_types)

At(evs, t) == SelectSeq(evs, LAMBDA e : e.timestamp_monotonic = t)

SourceRank(source) ==
    CASE source = "journal" -> 1
      [] source = "cloudinit" -> 2
      [] source = "systemd" -> 3
      [] OTHER -> 4

\* C22: in the events that analyze_events returns, the events of one
\* monotonic timestamp stand in the order of their emission: those of the
\* journal before those of cloud-init before those of systemd, and those of
\* one source as its get_events_of_interest listed them.
C22_TiesKeepEmissionOrder ==
    AnalyzeReturned =>
        /\ \A k \in DOMAIN an_events :
              At(an_events, an_events[k].timestamp_monotonic)
                  = At(EmissionOrder, an_events[k].timestamp_monotonic)
        /\ \A i, j \in DOMAIN an_result.events :
              (/\ i < j
               /\ an_result.events[i].timestamp_monotonic
                     = an_result.events[j].timestamp_monotonic)
                 => SourceRank(an_result.events[i].source)
                       <= SourceRank(an_result.events[j].source)

\* a result in which two different events of the journal and an event of
\* systemd have the same monotonic timestamp
C22_Witness ==
    /\ AnalyzeReturned
    /\ \E i, j, k \in DOMAIN an_result.events :
          /\ i < j /\ j < k
          /\ an_result.events[i].source = "journal"
          /\ an_result.events[j].source = "journal"
          /\ an_result.events[i].label # an_result.events[j].label
          /\ an_result.events[k].source = "systemd"
          /\ an_result.events[i].timestamp_monotonic
                = an_result.events[j].timestamp_monotonic
          /\ an_result.events[j].timestamp_monotonic
                = an_result.events[k].timestamp_monotonic

(***************************************************************************)
(* Claims about the times of the frames of get_frames().                   *)
(***************************************************************************)
FrameOf(i) ==
    {k \in DOMAIN frames :
        frames[k].timestamp_realtime_start = gf_entries[i].timestamp_realtime}

BootEntries(b) == [p \in DOMAIN cloudinits[b].entries |-> ci_entries[cloudinits[b].entries[p]]]

BootHasHint(b) == \E p \in DOMAIN BootEntries(b) : HasUptime(BootEntries(b)[p].message)

\* C24: CloudInit.load() returns, and in every boot returned that holds no
\* entry with an uptime hint every entry has timestamp_monotonic 0.0,
\* whatever hints the other boots of the log hold.
C24_NoHintKeepsZero ==
    /\ ci_status \in {"idle", "running", "returned"}
    /\ ci_status = "returned" =>
          \A b \in DOMAIN cloudinits :
              ~ BootHasHint(b) =>
                  \A p \in DOMAIN BootEntries(b) : BootEntries(b)[p].timestamp_monotonic = 0

(***************************************************************************)
(* Claims about the edges of the unit walk.                                *)
(***************************************************************************)
\* C25: the dependencies that the unit walk records hold no edge twice and
\* no unit as its own dependency, whatever the After-sets name: the unit
\* itself, or units on a cycle.
C25_NoDuplicateEdgeNoSelfLoop ==
    \A u, d \in Names :
        /\ EdgeCount(u, d) <= 1
        /\ EdgeCount(u, u) = 0

(***************************************************************************)
(* Claims about the boots as a partition of the entries.                   *)
(***************************************************************************)
\* the numbers of S in increasing order
RECURSIVE Ascending(_)
Ascending(S) == IF S = {} THEN <<>> ELSE Append(Ascending(S \ {Max(S)}), Max(S))

\* the line numbers of the parsed lines, in log order
ParsedLines == Ascending({k \in DOMAIN ci_lines : ci_lines[k].parses})

BootIds == [b \in DOMAIN cloudinits |-> cloudinits[b].entries]

JournalBootsPartition ==
    j_status = "returned" =>
        /\ Flatten(journals) = j_entries
        /\ \A b \in DOMAIN journals : journals[b] # <<>>

LoadBootsPartition ==
    ci_status = "returned" =>
        /\ Flatten(BootIds) = ParsedLines
        /\ \A b \in DOMAIN cloudinits : cloudinits[b].entries # <<>>

\* C26: the boots that Journal.parse_json and CloudInit.load return, put end
\* to end, are exactly the parsed entries in their order (none dropped, none
\* twice, the last buffer included), and no boot is empty.
C26_BootsPartitionEntries ==
    /\ JournalBootsPartition
    /\ LoadBootsPartition

(***************************************************************************)
(* Claims about the reference that estimates an entry.                     *)
(***************************************************************************)
\* line j is a boundary: an init-local line that is not the first parsed line
IsBoundaryLine(j) ==
    /\ ci_lines[j].parses
    /\ is_start_of_boot_record(ci_lines[j].message)
    /\ \E i \in 1..(j - 1) : ci_lines[i].parses

\* the boot of line k: a boundary line opens the next boot and belongs to it
BootOfLine(k) == Cardinality({j \in 1..k : IsBoundaryLine(j)})

\* the reference that the hint of line h gives
ReferenceOfHint(h) ==
    calculate_reference_timestamp(ci_entries[h].timestamp_realtime,
                                  Uptime(ci_entries[h].message))

\* the entry of line k has the estimate that the hint of line h gives, taken
\* from its timestamp as parsed or from its corrected timestamp
EstimatedFrom(k, h) ==
    /\ HasUptime(ci_entries[h].message)
    /\ \/ ci_entries[k].timestamp_monotonic
             = ci_entries[k].timestamp_realtime - ReferenceOfHint(h)
       \/ ci_entries[k].timestamp_monotonic
             = ci_lines[k].ts - ReferenceOfHint(h)

\* C27: after CloudInit.load(), an entry whose timestamp_monotonic is not 0
\* has the value that the reference of an uptime hint of its own boot gives;
\* no entry has a value that only a hint of another boot explains.
C27_EstimatedFromOwnBoot ==
    ci_status = "returned" =>
        \A k \in DOMAIN ci_entries :
            ci_entries[k].timestamp_monotonic # 0 =>
                \E h \in DOMAIN ci_entries :
                    BootOfLine(h) = BootOfLine(k) /\ EstimatedFrom(k, h)

\* the entry of line k has, for its corrected timestamp, the estimate that the
\* hint of line h gives
EstimateOfFinal(k, h) ==
    /\ HasUptime(ci_entries[h].message)
    /\ ci_entries[k].timestamp_monotonic
          = ci_entries[k].timestamp_realtime - ReferenceOfHint(h)

\* C28: after CloudInit.load(), an entry whose timestamp_monotonic is not 0
\* has timestamp_monotonic = timestamp_realtime - r for the reference r of an
\* uptime hint, timestamp_realtime being the corrected value that load()
\* leaves; and the entries of one boot estimated with one reference have
\* strictly increasing timestamp_monotonic in log order.
C28_MonotonicIsFinalRealtimeMinusReference ==
    ci_status = "returned" =>
        /\ \A k \in DOMAIN ci_entries :
              ci_entries[k].timestamp_monotonic # 0 =>
                  \E h \in DOMAIN ci_entries : EstimateOfFinal(k, h)
        /\ \A j, k \in DOMAIN ci_entries : \A h \in DOMAIN ci_entries :
              /\ j < k /\ BootOfLine(j) = BootOfLine(k)
              /\ EstimatedFrom(j, h) /\ EstimatedFrom(k, h)
              => ci_entries[j].timestamp_monotonic < ci_entries[k].timestamp_monotonic

(***************************************************************************)
(* Claims about SSH.fetch(), CloudInit.load_remote() and                   *)
(* SSH.connect_with_retries().                                             *)
(***************************************************************************)
FetchEnded == ft_status \in {"returned", "FileNotFoundError"}

\* what holds of the runs of fetch made so far
FetchRunsInOrder ==
    LET n == Len(ft_runs)
    IN  /\ n <= 2
        /\ n >= 1 => ft_runs[1].cmd = FetchCmd /\ ft_runs[1].cmd[1] # "sudo"
        /\ n = 2 => /\ ft_runs[1].returncode # 0
                    /\ ft_runs[2].cmd = <<"sudo">> \o ft_runs[1].cmd
        /\ FetchEnded /\ ft_runs[1].returncode # 0 => n = 2
        /\ ft_status = "FileNotFoundError" <=> (n = 2 /\ ft_runs[2].returncode # 0)
        /\ ft_status \in {"write", "returned"} =>
              ft_runs[n].returncode = 0 /\ ft_proc = ft_runs[n]
        /\ lr_result = "[]" <=> (lr_result # None /\ ft_status = "FileNotFoundError")

\* local_path changes only in the step that writes the output of a read
\* that exited with 0
FetchWritesAfterSuccess ==
    ft_local' # ft_local =>
        /\ ft_status = "write" /\ ft_status' = "returned"
        /\ ft_runs[Len(ft_runs)].returncode = 0
        /\ ft_local' = ft_runs[Len(ft_runs)].stdout

\* C29: fetch runs the plain read first and runs the read under sudo once,
\* exactly when the plain read exited non-zero; it raises FileNotFoundError
\* when the read under sudo fails too; local_path is written only with the
\* output of a read that exited with 0; and load_remote answers that
\* FileNotFoundError by returning the empty list.
C29_FetchFallsBackToSudoOnce ==
    /\ []FetchRunsInOrder
    /\ [][FetchWritesAfterSuccess]_vars
    /\ (ft_status = "FileNotFoundError") ~> (lr_result = "[]")

C29_Witness ==
    /\ lr_result = "load(local_path)"
    /\ Len(ft_runs) = 2
    /\ ft_runs[2].returncode = 0
    /\ ft_local = remote.bytes

\* the connect() calls made so far
ConnectCalls == SelectSeq(ssh_trace, LAMBDA c : c.call = "connect")

LastConnectSucceeded ==
    /\ ConnectCalls # <<>>
    /\ ConnectCalls[Len(ConnectCalls)].outcome.exc = None

NothingOpen ==
    client = None /\ proxy_client = None /\ transport = None /\ proxy_sock = None

\* C30: connect_with_retries makes no more connect() calls than `attempts`
\* allows; once it has left the handler of a failed attempt nothing that the
\* attempt opened is still held; and when it has made an attempt and returns,
\* its last connect() succeeded and the client is set.
C30_ReturnsOnlyWhenConnected ==
    /\ Len(ConnectCalls) + attempts <= MaxAttempts
    /\ ssh_status = "while" => NothingOpen
    /\ ssh_status = "returned" /\ ConnectCalls # <<>> =>
          LastConnectSucceeded /\ client # None

====
